---- MODULE Spec2Model ----
(***************************************************************************)
(* Model of the B2B outreach campaign pipeline                             *)
(* (backend/app/services): the response parsers of the discovery, research *)
(* and email stages and the campaign orchestrator, synchronous and         *)
(* streaming.                                                              *)
(*                                                                         *)
(* Text is modelled as a sequence of lines, a line as a sequence of        *)
(* tokens.  A token stands for a run of characters that the parsers never  *)
(* split (a word, a separator, a host part of a URL); the characters the   *)
(* parsers do look at (":", "**", "[", "]", "(", ")", " ", list markers)   *)
(* are tokens of their own.                                                *)
(***************************************************************************)
EXTENDS Integers, Sequences, FiniteSets, TLC

VARIABLES
    arg,    \* input of the parser under test
    ret,    \* its result, NotRun before the call
    mode,               \* "sync": execute_campaign, "stream": execute_campaign_streaming
    pc,                 \* position of the run in the method
    outcome,            \* how the method ended: "running", "returned", "ValueError", "raised"
    companies,          \* the list discover_companies returned
    idx,                \* enumerate(companies, 1)
    company_info,       \* locals of _process_company
    contacts,
    cidx,               \* index of the contact of the loop over contacts
    generated_emails,
    campaign_results,   \* campaign_results / results
    report,             \* the CampaignExecutionResponse returned
    events,             \* the updates the streaming method has yielded
    calls,              \* run() invocations per agent
    response,           \* what the run() of the discovery agent gave, NotRun before it
    agent_ok,           \* per agent whether it could be constructed, NotRun before validation
    log,                \* the stages entered for the company in process (for the
                        \* discovery, before the first company), with what the agent did
    failed_companies,   \* indices of the companies an exception ended the processing of
    request,            \* the CampaignConfig posted to an execution endpoint, NotRun when
                        \* the orchestrator is called directly
    saved,              \* what save_campaign did, NotRun before it
    reply,              \* what the endpoint answered, NotRun before it
    consumer,           \* the caller of the generator: "reading" while it asks for the
                        \* next update, "stopped" once it has given up
    files,              \* the storage directory: campaign id -> content of its file
    clock,              \* datetime.now(), in ticks
    saves               \* the save_campaign calls that returned, in order

fvars == <<arg, ret>>
svars == <<files, clock, saves>>
evars == <<request, saved, reply, consumer, files, clock, saves>>
wvars == <<mode, pc, outcome, companies, idx, company_info, contacts, cidx,
           generated_emails, campaign_results, report, events, calls, response,
           agent_ok, log, failed_companies, request, saved, reply, consumer,
          files, clock, saves>>
vars == <<arg, ret, mode, pc, outcome, companies, idx, company_info, contacts, cidx,
          generated_emails, campaign_results, report, events, calls, response,
          agent_ok, log, failed_companies, request, saved, reply, consumer,
          files, clock, saves>>

-----------------------------------------------------------------------------
(* Bounds of the model *)

\* lines of a company section in an enumerated discovery response
MaxLines == 2
\* sections of a discovery response of a campaign that name a website
MaxCompanies == 2
\* sections of a discovery response of a campaign that name none
MaxJunk == 1
\* contacts in a response of the contact agent in a campaign run
MaxContacts == 1
\* contacts in a response of the contact agent when one company is processed
\* on its own
MaxCompanyContacts == 2
\* lines of an enumerated response of the email agent
MaxEmailLines == 4
\* lines after the header of an enumerated research text
MaxListLines == 4

-----------------------------------------------------------------------------
(* Optional values: Python's None is kept apart from the empty string *)

None == [some |-> FALSE, val |-> <<>>]
Some(v) == [some |-> TRUE, val |-> v]
NotRun == [run |-> FALSE]

\* Python truthiness of an Optional[str]: None and "" are falsy
Truthy(o) == o.some /\ o.val # <<>>

-----------------------------------------------------------------------------
(* Tokens *)

Space == " "

\* number of characters of a token
TokLen(t) ==
    CASE t = "" -> 0
      [] t \in {" ", ":", "[", "]", "(", ")", ".", "-", "@", "~", "x",
                "1", "2", "3", "4", "5", "6"} -> 1
      [] t = "**" -> 2
      [] t \in {"URL", "N/A", "Ana", "CTO", "Sam"} -> 3
      [] t \in {"Bo", "Cy", "Di"} -> 2
      [] t \in {"Acme", "Beta", "SaaS", "site", "Best", "http", "Name", "Role"} -> 4
      [] t \in {"https", "Gamma", "Hello", "Title", "Delta", "Focus"} -> 5
      [] t = "Growth" -> 6
      [] t \in {"Website", "Company", "company", "Subject", "subject"} -> 7
      [] t \in {"Industry", "LinkedIn"} -> 8
      [] t \in {"//beta.io"} -> 9
      [] t \in {"//acme.com", "Challenges"} -> 10
      [] t = "//localhost" -> 11
      [] t = "Fintech software" -> 16
      [] t = "Long paragraph" -> 480
      [] OTHER -> 12

\* str.lower() of a token
Lower(t) ==
    CASE t = "Website" -> "website"
      [] t = "URL" -> "url"
      [] t = "Industry" -> "industry"
      [] t = "Company" -> "company"
      [] t = "Subject" -> "subject"
      [] t = "Challenges" -> "challenges"
      [] t = "Growth" -> "growth"
      [] t = "Name" -> "name"
      [] t = "Title" -> "title"
      [] t = "Role" -> "role"
      [] t = "LinkedIn" -> "linkedin"
      [] t = "CRM Software" -> "crm software"
      [] OTHER -> t

\* len(line)
RECURSIVE LineLen(_)
LineLen(l) == IF l = <<>> THEN 0 ELSE TokLen(Head(l)) + LineLen(Tail(l))

\* len("\n".join(lines))
RECURSIVE TextLen(_)
TextLen(ls) ==
    IF ls = <<>> THEN 0
    ELSE LineLen(Head(ls)) + (IF Len(ls) > 1 THEN 1 ELSE 0) + TextLen(Tail(ls))

\* first index of s whose token is not in S, Len(s) + 1 when there is none
FirstNotIn(s, S) ==
    IF \E i \in 1..Len(s) : s[i] \notin S
    THEN CHOOSE i \in 1..Len(s) : s[i] \notin S /\ \A j \in 1..(i - 1) : s[j] \in S
    ELSE Len(s) + 1

\* last index of s whose token is not in S, 0 when there is none
LastNotIn(s, S) ==
    IF \E i \in 1..Len(s) : s[i] \notin S
    THEN CHOOSE i \in 1..Len(s) : s[i] \notin S /\ \A j \in (i + 1)..Len(s) : s[j] \in S
    ELSE 0

\* first index of token t in s, 0 when absent (str.find)
IndexOf(s, t) ==
    IF \E i \in 1..Len(s) : s[i] = t
    THEN CHOOSE i \in 1..Len(s) : s[i] = t /\ \A j \in 1..(i - 1) : s[j] # t
    ELSE 0

\* str.strip() of one line
StripLine(l) == SubSeq(l, FirstNotIn(l, {Space}), LastNotIn(l, {Space}))

\* a line that is empty or whitespace only
BlankLine(l) == StripLine(l) = <<>>

\* str.strip() of a multi-line text: blank lines at both ends go, and the
\* whitespace before the first and after the last character
StripText(ls) ==
    LET blank == {i \in 1..Len(ls) : BlankLine(ls[i])}
        keep == (1..Len(ls)) \ blank
    IN  IF keep = {} THEN <<>>
        ELSE LET a == CHOOSE i \in keep : \A j \in keep : i <= j
                 b == CHOOSE i \in keep : \A j \in keep : j <= i
             IN  [i \in 1..(b - a + 1) |->
                    LET l == ls[a + i - 1]
                        from == IF i = 1 THEN FirstNotIn(l, {Space}) ELSE 1
                        to == IF a + i - 1 = b THEN LastNotIn(l, {Space}) ELSE Len(l)
                    IN  SubSeq(l, from, to)]

\* keyword in s.lower(), for a keyword that is one token
HasKeyword(l, kw) == \E i \in 1..Len(l) : Lower(l[i]) = kw

\* s.replace(t, "")
RECURSIVE Remove(_, _)
Remove(s, t) ==
    IF s = <<>> THEN <<>>
    ELSE IF Head(s) = t THEN Remove(Tail(s), t) ELSE <<Head(s)>> \o Remove(Tail(s), t)

\* text.split("\n"): the empty text is one empty line
Lines(text) == IF text = <<>> THEN << <<>> >> ELSE text

-----------------------------------------------------------------------------
(* Company discovery: company_service.py *)

\* the characters of the class [\d\.\-\*\u2022\s] that re.sub strips from the
\* start of a line
LeadToks == {"1", "2", "3", "4", "5", "6", ".", "-", "**", "U+2022", Space}

Schemes == {"http", "https"}

\* host parts a URL can continue with after "http(s):"; only a dotted host
\* matches the bare URL pattern of _extract_url
HostToks == {"//acme.com", "//beta.io", "//localhost"}
DottedHostToks == {"//acme.com", "//beta.io"}

\* tokens made only of characters of [-a-zA-Z0-9()@:%_\+.~#?&/=]
UrlTailToks ==
    {"(", ")", ":", ".", "-", "@", "1", "2", "3", "4", "5", "6", "x", "Acme", "Beta", "Gamma", "SaaS",
     "site", "Website", "URL", "Industry", "http", "https"} \cup HostToks

\* a match of \[([^\]]+)\]\((https?://[^\)]+)\) that starts at token i
MdMatchAt(l, i) ==
    /\ l[i] = "["
    /\ \E j \in (i + 2)..Len(l) :
        /\ l[j] = "]"
        /\ \A m \in (i + 1)..(j - 1) : l[m] # "]"
        /\ j + 5 <= Len(l)
        /\ l[j + 1] = "("
        /\ l[j + 2] \in Schemes
        /\ l[j + 3] = ":"
        /\ l[j + 4] \in HostToks
        /\ \E k \in (j + 5)..Len(l) : l[k] = ")"

\* group(2).strip() of the leftmost match in one line, None without a match
MdUrlInLine(l) ==
    IF \E i \in 1..Len(l) : MdMatchAt(l, i)
    THEN LET i == CHOOSE x \in 1..Len(l) :
                    MdMatchAt(l, x) /\ \A y \in 1..(x - 1) : ~MdMatchAt(l, y)
             j == CHOOSE x \in (i + 2)..Len(l) :
                    l[x] = "]" /\ \A m \in (i + 1)..(x - 1) : l[m] # "]"
             k == CHOOSE x \in (j + 5)..Len(l) :
                    l[x] = ")" /\ \A m \in (j + 5)..(x - 1) : l[m] # ")"
         IN  Some(StripLine(SubSeq(l, j + 2, k - 1)))
    ELSE None

\* the result of the first line of a text for which F gives one
RECURSIVE FirstOverLines(_, _)
FirstOverLines(results, i) ==
    IF i > Len(results) THEN None
    ELSE IF results[i].some THEN results[i]
    ELSE FirstOverLines(results, i + 1)

\* _extract_markdown_url: first [text](url) of the text
extract_markdown_url(text) ==
    FirstOverLines([i \in 1..Len(Lines(text)) |-> MdUrlInLine(Lines(text)[i])], 1)

\* a match of the bare URL pattern that starts at token i
UrlMatchAt(l, i) ==
    /\ i + 2 <= Len(l)
    /\ l[i] \in Schemes
    /\ l[i + 1] = ":"
    /\ l[i + 2] \in DottedHostToks

\* group(0) of the leftmost bare URL of one line
UrlInLine(l) ==
    IF \E i \in 1..Len(l) : UrlMatchAt(l, i)
    THEN LET i == CHOOSE x \in 1..Len(l) :
                    UrlMatchAt(l, x) /\ \A y \in 1..(x - 1) : ~UrlMatchAt(l, y)
             rest == SubSeq(l, i + 3, Len(l))
             n == FirstNotIn(rest, UrlTailToks) - 1
         IN  Some(SubSeq(l, i, i + 2 + n))
    ELSE None

\* _extract_url: first bare URL of the text
extract_url(text) ==
    FirstOverLines([i \in 1..Len(Lines(text)) |-> UrlInLine(Lines(text)[i])], 1)

\* the body of the two loops of _extract_numbered_field for one line and one
\* keyword: the value returned there, None when the loops go on
NumberedFieldAt(line, keyword) ==
    IF ~HasKeyword(StripLine(line), keyword) THEN None
    ELSE
        LET cleaned_line ==
                Remove(StripLine(SubSeq(line, FirstNotIn(line, LeadToks), Len(line))), "**")
            c == IndexOf(cleaned_line, ":")
        IN  IF c = 0 THEN None
            ELSE IF ~HasKeyword(SubSeq(cleaned_line, 1, c - 1), keyword) THEN None
            ELSE
                LET value == StripLine(SubSeq(cleaned_line, c + 1, Len(cleaned_line)))
                    md_match == MdUrlInLine(value)
                IN  IF md_match.some THEN md_match
                    ELSE IF value # <<>> /\ LineLen(value) > 1 THEN Some(value)
                    ELSE None

\* for line in lines: for keyword in keywords: the first value returned
RECURSIVE NumberedFieldFrom(_, _, _, _)
NumberedFieldFrom(lines, keywords, i, k) ==
    IF i > Len(lines) THEN None
    ELSE IF k > Len(keywords) THEN NumberedFieldFrom(lines, keywords, i + 1, 1)
    ELSE IF NumberedFieldAt(lines[i], keywords[k]).some
         THEN NumberedFieldAt(lines[i], keywords[k])
    ELSE NumberedFieldFrom(lines, keywords, i, k + 1)

extract_numbered_field(text, keywords) == NumberedFieldFrom(Lines(text), keywords, 1, 1)

Digits == {"1", "2", "3", "4", "5", "6"}

\* a match of \*\*Company\s+(\d+):\s+([^*]+)\*\* (IGNORECASE) that starts at
\* token p of a line: the index of the closing "**", 0 without a match
HeaderCloseAt(l, p) ==
    IF /\ p + 7 <= Len(l)
       /\ l[p] = "**"
       /\ Lower(l[p + 1]) = "company"
       /\ l[p + 2] = Space
       /\ l[p + 3] \in Digits
       /\ l[p + 4] = ":"
       /\ l[p + 5] = Space
       /\ l[p + 6] # "**"
       /\ \E e \in (p + 7)..Len(l) : l[e] = "**"
    THEN CHOOSE e \in (p + 7)..Len(l) :
            l[e] = "**" /\ \A m \in (p + 6)..(e - 1) : l[m] # "**"
    ELSE 0

HasHeader(l) == \E p \in 1..Len(l) : HeaderCloseAt(l, p) > 0

\* start of the leftmost header of a line
HeaderStart(l) ==
    CHOOSE p \in 1..Len(l) :
        HeaderCloseAt(l, p) > 0 /\ \A q \in 1..(p - 1) : HeaderCloseAt(l, q) = 0

\* match.group(2).strip()
HeaderName(l) ==
    LET p == HeaderStart(l)
    IN  StripLine(SubSeq(l, p + 6, HeaderCloseAt(l, p) - 1))

\* the indices of the lines that hold a header, in order (re.finditer)
HeaderLines(lines) ==
    SelectSeq([i \in 1..Len(lines) |-> i], LAMBDA i : HasHeader(lines[i]))

\* response_text[start_pos:end_pos].strip() for the i-th header
SectionOf(lines, hs, i) ==
    LET h == hs[i]
        first == SubSeq(lines[h], HeaderCloseAt(lines[h], HeaderStart(lines[h])) + 1,
                        Len(lines[h]))
        body == IF i + 1 <= Len(hs)
                THEN SubSeq(lines, h + 1, hs[i + 1] - 1)
                     \o << SubSeq(lines[hs[i + 1]], 1, HeaderStart(lines[hs[i + 1]]) - 1) >>
                ELSE SubSeq(lines, h + 1, Len(lines))
    IN  StripText(<<first>> \o body)

\* sections shorter than this are skipped
MinSectionLen == 20

\* a lookup that puts a placeholder where no website is found
WebsiteOrPlaceholder(section) ==
    IF Truthy(extract_numbered_field(section, <<"website", "url">>))
    THEN extract_numbered_field(section, <<"website", "url">>)
    ELSE IF Truthy(extract_markdown_url(section)) THEN extract_markdown_url(section)
    ELSE IF Truthy(extract_url(section)) THEN extract_url(section)
    ELSE Some(<<"N/A">>)

\* the website of a section: the labelled field, else a markdown link, else
\* a bare URL
WebsiteOf(section) ==
    LET labelled == extract_numbered_field(section, <<"website", "url">>)
        md_url == extract_markdown_url(section)
        extracted_url == extract_url(section)
    IN  IF Truthy(labelled) THEN labelled
        ELSE IF Truthy(md_url) THEN md_url
        ELSE IF Truthy(extracted_url) THEN extracted_url
        ELSE labelled

\* the dictionary built for one section
CompanyData(name, section) ==
    [ company_name |-> name,
      website_url |-> WebsiteOf(section),
      industry |-> extract_numbered_field(section, <<"industry", "sector">>) ]

\* a validity test that asks for the name only
CompanyValidByName(company_data) == company_data.company_name # <<>>

\* "If we have at least company name and website, consider it valid"
CompanyValid(company_data) ==
    company_data.company_name # <<>> /\ Truthy(company_data.website_url)

RECURSIVE ParseSections(_, _, _)
ParseSections(lines, hs, i) ==
    IF i > Len(hs) THEN <<>>
    ELSE
        LET section == SectionOf(lines, hs, i)
            company_data == CompanyData(HeaderName(lines[hs[i]]), section)
            rest == ParseSections(lines, hs, i + 1)
        IN  IF section = <<>> \/ TextLen(section) < MinSectionLen THEN rest
            ELSE IF CompanyValid(company_data) THEN <<company_data>> \o rest
            ELSE rest

\* _parse_companies_response
parse_companies_response(response_text) ==
    ParseSections(Lines(response_text), HeaderLines(Lines(response_text)), 1)

-----------------------------------------------------------------------------
(* Results of calls that may raise *)

Raised == [raised |-> TRUE, val |-> <<>>]
Returned(v) == [raised |-> FALSE, val |-> v]

\* what an agent's run() does: it raises, it returns nothing (no response or
\* an empty content), or it returns content
Agents == {"company_finder", "company_researcher", "contact_finder", "email_creator"}

AgentRaises == [kind |-> "raise", content |-> <<>>]
AgentEmpty == [kind |-> "empty", content |-> <<>>]
AgentContent(text) == [kind |-> "content", content |-> text]
\* content that is no string (the framework types it as Any)
AgentObject == [kind |-> "object", content |-> <<>>]

-----------------------------------------------------------------------------
(* Email generation: email_service.py *)

\* line.strip().lower().startswith("subject:")
IsSubjectLine(line) ==
    LET l == StripLine(line)
    IN  Len(l) >= 2 /\ Lower(l[1]) = "subject" /\ l[2] = ":"

\* line.split(":", 1)[1].strip()
AfterColon(line) == StripLine(SubSeq(line, IndexOf(line, ":") + 1, Len(line)))

\* the loop over the lines: <<subject, body_lines, in_body>> after line i
RECURSIVE EmailScan(_, _)
EmailScan(lines, i) ==
    IF i = 0 THEN [subject |-> <<>>, body_lines |-> <<>>, in_body |-> FALSE]
    ELSE
        LET st == EmailScan(lines, i - 1)
            line == lines[i]
        IN  IF IsSubjectLine(line) THEN [st EXCEPT !.subject = AfterColon(line)]
            ELSE IF ~st.in_body /\ BlankLine(line) THEN [st EXCEPT !.in_body = TRUE]
            ELSE IF st.in_body THEN [st EXCEPT !.body_lines = @ \o <<line>>]
            ELSE st

\* f"Quick question about {company_info.company_name}"
FallbackSubject(info) == <<"Quick question about", Space>> \o info.company_name

\* _generate_personalization_notes: the kinds of research the notes name
PersonalizationNotes(info) ==
    LET notes == (IF Truthy(info.challenges) THEN <<"challenges">> ELSE <<>>)
                 \o (IF Truthy(info.growth_areas) THEN <<"growth_areas">> ELSE <<>>)
    IN  IF notes = <<>> THEN <<"Basic personalization applied">> ELSE notes

\* a fallback taken only when both the subject and the body are missing
ParseFailedBoth(subject, body) == subject = <<>> /\ body = <<>>

\* "If parsing failed, use the whole response as body"
ParseFailed(subject, body) == subject = <<>> \/ body = <<>>

\* _parse_email_response
parse_email_response(response_text, info) ==
    LET lines == Lines(StripText(response_text))
        st == EmailScan(lines, Len(lines))
        body == StripText(st.body_lines)
        failed == ParseFailed(st.subject, body)
    IN  [ subject |-> IF failed THEN FallbackSubject(info) ELSE st.subject,
          body |-> IF failed THEN StripText(response_text) ELSE body,
          personalization_notes |-> PersonalizationNotes(info) ]

\* the sender of the campaign
SenderDetails ==
    [ name |-> "Sam", email |-> "sam@initech.com", organization |-> "Initech",
      service_offered |-> "CRM Software" ]

\* _create_fallback_email
create_fallback_email(info, sender_details) ==
    [ subject |-> <<"Thought you'd be interested -", Space>> \o info.company_name,
      body |-> << <<"Hey there,">>,
                  <<"I came across", Space>> \o info.company_name,
                  <<"We at", Space, sender_details.organization, Space,
                    Lower(sender_details.service_offered)>>,
                  <<"Best,">>,
                  <<sender_details.name>>,
                  <<sender_details.organization>> >>,
      personalization_notes |-> <<"Fallback email template used due to generation error">> ]

\* a generate_email that lets the exception of its agent through
generate_email_unguarded(info, sender_details, escapes, agent) ==
    IF escapes \/ agent.kind \in {"raise", "object"} THEN Raised
    ELSE IF agent.kind = "empty" THEN Returned(create_fallback_email(info, sender_details))
    ELSE Returned(parse_email_response(agent.content, info))

\* generate_email: escapes is an exception raised before the try block
\* (template selection, context building), which the method does not catch
generate_email(info, sender_details, escapes, agent) ==
    IF escapes THEN Raised
    ELSE IF agent.kind \in {"raise", "empty"}
         THEN Returned(create_fallback_email(info, sender_details))
    ELSE IF agent.kind = "object"
         \* response_text.strip() raises inside the try
         THEN Returned(create_fallback_email(info, sender_details))
    ELSE Returned(parse_email_response(agent.content, info))

-----------------------------------------------------------------------------
(* Company research: research_service.py *)

\* characters of section text read after a keyword by _extract_list_field
ListWindow == 500

\* what is left of a token that the end of the window cuts
CutTok == "~"

\* l[:b] for a line and a number of characters
TakeLine(l, b) ==
    LET fits == {n \in 0..Len(l) : LineLen(SubSeq(l, 1, n)) <= b}
        n == CHOOSE x \in fits : \A y \in fits : y <= x
    IN  IF n < Len(l) /\ LineLen(SubSeq(l, 1, n)) < b
        THEN SubSeq(l, 1, n) \o <<CutTok>>
        ELSE SubSeq(l, 1, n)

\* text[:b].split("\n") for a text given by its lines
RECURSIVE TakeText(_, _)
TakeText(ls, b) ==
    IF ls = <<>> THEN <<>>
    ELSE IF LineLen(Head(ls)) >= b THEN <<TakeLine(Head(ls), b)>>
    ELSE IF Len(ls) = 1 THEN ls
    ELSE IF b - LineLen(Head(ls)) - 1 = 0 THEN <<Head(ls), <<>> >>
    ELSE <<Head(ls)>> \o TakeText(Tail(ls), b - LineLen(Head(ls)) - 1)

\* the lines that hold the keyword
KeywordLines(lines, keyword) == {i \in 1..Len(lines) : HasKeyword(lines[i], keyword)}

\* text[start_idx:start_idx + window].split("\n"), start_idx the first
\* occurrence of the keyword
SectionAfter(lines, keyword, window) ==
    LET i == CHOOSE x \in KeywordLines(lines, keyword) :
                \A y \in KeywordLines(lines, keyword) : x <= y
        j == CHOOSE x \in 1..Len(lines[i]) :
                Lower(lines[i][x]) = keyword
                /\ \A y \in 1..(x - 1) : Lower(lines[i][y]) # keyword
    IN  TakeText(<<SubSeq(lines[i], j, Len(lines[i]))>> \o SubSeq(lines, i + 1, Len(lines)),
                 window)

BulletToks == {"-", "U+2022", "**"}

\* the item a line of the section contributes, <<>> when it contributes none
ListItemOf(raw) ==
    LET line == StripLine(raw)
    IN  IF line = <<>> THEN <<>>
        ELSE IF line[1] \in BulletToks
             THEN StripLine(SubSeq(line, FirstNotIn(line, BulletToks), Len(line)))
        ELSE IF line[1] \in Digits /\ (IndexOf(line, ".") > 0 \/ IndexOf(line, ")") > 0)
             THEN LET a == SubSeq(line, IndexOf(line, ".") + 1, Len(line))
                      b == SubSeq(a, IndexOf(a, ")") + 1, Len(a))
                  IN  StripLine(b)
        ELSE <<>>

\* for line in lines[1:]: the items collected
RECURSIVE ItemsOf(_)
ItemsOf(lines) ==
    IF lines = <<>> THEN <<>>
    ELSE (IF ListItemOf(Head(lines)) # <<>> THEN <<ListItemOf(Head(lines))>> ELSE <<>>)
         \o ItemsOf(Tail(lines))

\* the lines of a section that are scanned for items: all but the header line
ScannedLines(section) == Tail(section)

RECURSIVE ListFieldFrom(_, _, _)
ListFieldFrom(lines, keywords, k) ==
    IF k > Len(keywords) THEN None
    ELSE IF KeywordLines(lines, keywords[k]) = {} THEN ListFieldFrom(lines, keywords, k + 1)
    ELSE LET items == ItemsOf(ScannedLines(SectionAfter(lines, keywords[k], ListWindow)))
         IN  IF items # <<>> THEN Some(items) ELSE ListFieldFrom(lines, keywords, k + 1)

\* _extract_list_field
extract_list_field(text, keywords) == ListFieldFrom(Lines(text), keywords, 1)

\* the fields copied from the discovery record
BaseInfo(company_data) ==
    [ company_name |-> company_data.company_name,
      website_url |-> company_data.website_url,
      industry |-> company_data.industry,
      challenges |-> None,
      growth_areas |-> None ]

\* a basic profile that forgets the website
create_info_without_website(company_data) ==
    [BaseInfo(company_data) EXCEPT !.website_url = None]

\* _create_basic_company_info
create_basic_company_info(company_data) == BaseInfo(company_data)

\* the optional fields of the update and the keywords of each
ResearchFields == {"challenges", "growth_areas"}
ResearchKeywords(field) ==
    IF field = "challenges" THEN <<"challenges", "problems">> ELSE <<"growth", "expansion">>

\* content that is a string for every extraction but those of the fields in
\* raises, where a method of it raises
AgentFaulty(text, raises) == [kind |-> "faulty", content |-> text, raises |-> raises]

\* whether the extraction of a field raises: content that is no string makes
\* every extraction raise
ExtractionRaises(agent, field) ==
    \/ agent.kind = "object"
    \/ agent.kind = "faulty" /\ field \in agent.raises

\* the update of the profile
ExtractedFields(agent, company_data) ==
    [ BaseInfo(company_data) EXCEPT
        !.challenges = extract_list_field(agent.content, ResearchKeywords("challenges")),
        !.growth_areas = extract_list_field(agent.content, ResearchKeywords("growth_areas")) ]

\* _parse_research_response: the extraction of the optional fields runs in
\* one try block around one update; an extraction that raises leaves the
\* profile with the discovery fields alone
parse_research_response(agent, company_data) ==
    IF \E f \in ResearchFields : ExtractionRaises(agent, f)
    THEN BaseInfo(company_data)
    ELSE ExtractedFields(agent, company_data)

\* the try block of research_company
ResearchTry(company_data, agent) ==
    IF agent.kind = "raise" THEN Raised
    ELSE IF agent.kind = "empty" THEN Returned(create_basic_company_info(company_data))
    ELSE Returned(parse_research_response(agent, company_data))

\* research_company: "Return basic info on error"
research_company(company_data, agent) ==
    IF ResearchTry(company_data, agent).raised
    THEN Returned(create_basic_company_info(company_data))
    ELSE ResearchTry(company_data, agent)

-----------------------------------------------------------------------------
(* Contact discovery: contact_service.py *)

\* the sections of response_text.split("Contact "): the token lines between
\* the occurrences of the marker
RECURSIVE SplitOnContact(_, _)
SplitOnContact(lines, cur) ==
    IF lines = <<>> THEN <<cur>>
    ELSE
        LET l == Head(lines)
            hit == {i \in 1..(Len(l) - 1) : l[i] = "Contact" /\ l[i + 1] = Space}
        IN  IF hit = {}
            THEN SplitOnContact(Tail(lines), cur \o <<l>>)
            ELSE LET i == CHOOSE x \in hit : \A y \in hit : x <= y
                 IN  <<cur \o <<SubSeq(l, 1, i - 1)>> >>
                     \o SplitOnContact(<<SubSeq(l, i + 2, Len(l))>> \o Tail(lines), <<>>)

\* the value _extract_field returns for one line and one keyword, None when
\* the loops go on.  The guard reads
\*   value and not value.startswith("http") or "@" in value or "linkedin" in keyword
ContactFieldAt(line, keyword) ==
    IF ~HasKeyword(line, keyword) THEN None
    ELSE IF IndexOf(line, ":") > 0
         THEN LET value == AfterColon(line)
              IN  IF \/ (value # <<>> /\ value[1] \notin Schemes)
                     \/ IndexOf(value, "@") > 0
                     \/ keyword = "linkedin"
                  THEN Some(value)
                  ELSE None
    ELSE IF IndexOf(line, "-") > 0 /\ StripLine(line)[1] # "-"
         THEN LET value == StripLine(SubSeq(line, IndexOf(line, "-") + 1, Len(line)))
              IN  IF value # <<>> THEN Some(value) ELSE None
    ELSE None

RECURSIVE ContactFieldFrom(_, _, _, _)
ContactFieldFrom(lines, keywords, i, k) ==
    IF i > Len(lines) THEN None
    ELSE IF k > Len(keywords) THEN ContactFieldFrom(lines, keywords, i + 1, 1)
    ELSE IF ContactFieldAt(lines[i], keywords[k]).some
         THEN ContactFieldAt(lines[i], keywords[k])
    ELSE ContactFieldFrom(lines, keywords, i, k + 1)

\* ContactFinderService._extract_field
contact_extract_field(text, keywords) == ContactFieldFrom(Lines(text), keywords, 1, 1)

\* the dictionary built for one section
ContactData(section, company_name) ==
    [ name |-> contact_extract_field(section, <<"name">>),
      title |-> contact_extract_field(section, <<"title", "position", "role">>),
      email |-> contact_extract_field(section, <<"email">>),
      linkedin |-> contact_extract_field(section, <<"linkedin", "profile">>),
      company |-> company_name ]

\* a test that asks for the name only
ContactValidByName(contact_data) == Truthy(contact_data.name)

\* "Only add if we have at least a name and title"
ContactValid(contact_data) == Truthy(contact_data.name) /\ Truthy(contact_data.title)

\* a section the loop skips before extraction
SkippedSection(section) ==
    \/ StripText(section) = <<>>
    \/ StripText(section)[1][1] = "Focus"

RECURSIVE ContactsOf(_, _)
ContactsOf(sections, company_name) ==
    IF sections = <<>> THEN <<>>
    ELSE LET contact_data == ContactData(Head(sections), company_name)
             rest == ContactsOf(Tail(sections), company_name)
         IN  IF SkippedSection(Head(sections)) THEN rest
             ELSE IF ContactValid(contact_data) THEN <<contact_data>> \o rest
             ELSE rest

\* _parse_contacts_response
parse_contacts_response(response_text, company_name) ==
    ContactsOf(SplitOnContact(Lines(response_text), <<>>), company_name)

\* find_contacts: every failure of the agent gives the empty list
find_contacts(company_data, agent) ==
    IF agent.kind \in {"raise", "empty", "object"} THEN <<>>
    ELSE parse_contacts_response(agent.content, company_data.company_name)

-----------------------------------------------------------------------------
(* Inputs of the discovery parser *)

\* lines an agent writes in a company section
SectionLinePool ==
    { <<"2", ".", Space, "**", "Website", ":", "**", Space, "https", ":", "//acme.com">>,
      <<"Website", ":", Space, "[", "site", "]", "(", "https", ":", "//localhost", ")">>,
      <<"-", Space, "URL", ":", Space>>,
      <<"Website", ":", Space, "x">>,
      <<"Website", Space, "https", ":", "//acme.com">>,
      <<"Fintech software", Space, "[", "site", "]", "(", "https", ":", "//beta.io", ")">>,
      <<"Fintech software", Space, "https", ":", "//beta.io">>,
      <<"Fintech software", Space, "https", ":", "//localhost">>,
      <<"Fintech software", Space, "Fintech software">>,
      <<"Industry", ":", Space, "Website", Space, "Fintech software">> }

\* header lines: a plain one, one whose name is blank, a lower-case one with
\* text after the closing "**", and a line that is no header
HeaderPool ==
    { <<"**", "Company", Space, "1", ":", Space, "Acme", "**">>,
      <<"**", "Company", Space, "1", ":", Space, Space, "**">>,
      <<"**", "company", Space, "2", ":", Space, "Beta", Space, "SaaS", "**", Space, "N/A">>,
      <<"Company", Space, "1", ":", Space, "Acme">> }

\* all texts of 1..n lines of the pool
RECURSIVE TextsUpTo(_, _)
TextsUpTo(pool, n) ==
    IF n = 0 THEN {<<>>}
    ELSE LET shorter == TextsUpTo(pool, n - 1)
         IN  shorter \cup {t \o <<l>> : t \in shorter, l \in pool}

\* a second section that follows the enumerated one: none, one of another
\* company, with and without a website, and one that repeats the company of
\* the plain header
SecondSections ==
    { <<>>,
      << <<"**", "Company", Space, "2", ":", Space, "Acme", "**">>,
         <<"Website", ":", Space, "https", ":", "//acme.com">> >>,
      << <<"**", "Company", Space, "2", ":", Space, "Gamma", "**">>,
         <<"Website", ":", Space, "https", ":", "//beta.io">> >>,
      << <<"**", "Company", Space, "2", ":", Space, "Gamma", "**">>,
         <<"Fintech software", Space, "Fintech software">> >> }

DiscoveryResponses ==
    { <<h>> \o body \o second :
        h \in HeaderPool, body \in TextsUpTo(SectionLinePool, MaxLines),
        second \in SecondSections }

\* the orchestrator does not run while a parser is checked on its own
WorkflowIdle ==
    /\ mode = "none"
    /\ pc = "idle"
    /\ outcome = "running"
    /\ companies = <<>>
    /\ idx = 0
    /\ company_info = None
    /\ contacts = <<>>
    /\ cidx = 0
    /\ generated_emails = <<>>
    /\ campaign_results = <<>>
    /\ report = None
    /\ events = <<>>
    /\ calls = [a \in Agents |-> 0]
    /\ response = NotRun
    /\ agent_ok = NotRun
    /\ log = <<>>
    /\ failed_companies = {}
    /\ request = NotRun
    /\ saved = NotRun
    /\ reply = NotRun
    /\ consumer = "reading"
    /\ files = <<>>
    /\ clock = 0
    /\ saves = <<>>

InitDiscovery ==
    /\ arg \in DiscoveryResponses
    /\ ret = NotRun
    /\ WorkflowIdle

\* one call of _parse_companies_response
ParseCompanies ==
    /\ ret = NotRun
    /\ ret' = [run |-> TRUE, val |-> parse_companies_response(arg)]
    /\ UNCHANGED arg
    /\ UNCHANGED wvars

NextDiscovery == ParseCompanies

SpecDiscovery == InitDiscovery /\ [][NextDiscovery]_vars

-----------------------------------------------------------------------------
(* Inputs of the email parser *)

EmailLinePool ==
    { <<"Subject", ":", Space, "Hello">>,
      <<Space, "subject", ":", Space, "Hello", Space, "Acme">>,
      <<"Subject", ":", Space>>,
      <<>>,
      <<Space>>,
      <<"Hello", Space, "Acme">>,
      <<"Best", Space>> }

\* the non-empty responses of 1..MaxEmailLines lines
EmailResponses == {t \in TextsUpTo(EmailLinePool, MaxEmailLines) : TextLen(t) > 0}

\* a researched company an email is written for
SomeCompanyInfo ==
    [ company_name |-> <<"Acme">>,
      website_url |-> Some(<<"https", ":", "//acme.com">>),
      industry |-> None,
      challenges |-> None,
      growth_areas |-> None ]

InitEmail ==
    /\ arg \in EmailResponses
    /\ ret = NotRun
    /\ WorkflowIdle

\* one call of _parse_email_response
ParseEmail ==
    /\ ret = NotRun
    /\ ret' = [run |-> TRUE, val |-> parse_email_response(arg, SomeCompanyInfo)]
    /\ UNCHANGED arg
    /\ UNCHANGED wvars

NextEmail == ParseEmail

SpecEmail == InitEmail /\ [][NextEmail]_vars

-----------------------------------------------------------------------------
(* Inputs of the research stage *)

ListLinePool ==
    { <<"-", Space, "Slow onboarding">>,
      <<"-", Space, "High churn">>,
      <<"Growth", ":">>,
      <<"-", Space, "New market">>,
      <<"1", ".", Space, "Legacy stack">>,
      <<"Long paragraph">> }

\* research texts: a "Challenges:" header and up to MaxListLines lines
ResearchTexts ==
    { << <<"Challenges", ":">> >> \o t : t \in TextsUpTo(ListLinePool, MaxListLines) }

KeywordLists == { <<"challenges">>, <<"challenges", "problems">>, <<"growth", "expansion">> }

InitList ==
    /\ arg \in [text : ResearchTexts, keywords : KeywordLists]
    /\ ret = NotRun
    /\ WorkflowIdle

\* one call of _extract_list_field
ExtractList ==
    /\ ret = NotRun
    /\ ret' = [run |-> TRUE, val |-> extract_list_field(arg.text, arg.keywords)]
    /\ UNCHANGED arg
    /\ UNCHANGED wvars

NextList == ExtractList

SpecList == InitList /\ [][NextList]_vars

\* records the discovery stage hands to the research stage
ResearchCandidates ==
    { [ company_name |-> <<"Acme">>,
        website_url |-> Some(<<"https", ":", "//acme.com">>),
        industry |-> Some(<<"SaaS">>) ],
      [ company_name |-> <<"Beta", Space, "SaaS">>,
        website_url |-> Some(<<"N/A">>),
        industry |-> None ] }

ResearchOutcomes ==
    {AgentRaises, AgentEmpty, AgentObject}
    \cup {AgentContent(t) : t \in ResearchTexts}
    \cup {AgentFaulty(t, r) : t \in ResearchTexts, r \in (SUBSET ResearchFields) \ {{}}}

InitResearch ==
    /\ arg \in [company_data : ResearchCandidates, agent : ResearchOutcomes]
    /\ ret = NotRun
    /\ WorkflowIdle

\* one call of research_company
ResearchCompany ==
    /\ ret = NotRun
    /\ ret' = [run |-> TRUE, val |-> research_company(arg.company_data, arg.agent)]
    /\ UNCHANGED arg
    /\ UNCHANGED wvars

NextResearch == ResearchCompany

SpecResearch == InitResearch /\ [][NextResearch]_vars

-----------------------------------------------------------------------------
(* Campaign orchestration: workflow_service.py, agent_service.py *)

\* a validation that constructs the discovery agent only
validate_finder_only(constructible) == constructible["company_finder"]

\* validate_agents: every agent can be constructed
validate_agents(constructible) == \A a \in Agents : constructible[a]

\* a discovery that swallows an exception of its agent
discover_companies_lenient(agent) ==
    IF agent.kind \in {"raise", "object", "empty"} THEN Returned(<<>>)
    ELSE Returned(parse_companies_response(agent.content))

\* a discovery that treats a missing response as an error
discover_companies_strict(agent) ==
    IF agent.kind \in {"raise", "object", "empty"} THEN Raised
    ELSE Returned(parse_companies_response(agent.content))

\* discover_companies: an empty response is an empty list, an exception of
\* the agent or of the parser is raised again
discover_companies(agent) ==
    IF agent.kind \in {"raise", "object"} THEN Raised
    ELSE IF agent.kind = "empty" THEN Returned(<<>>)
    ELSE Returned(parse_companies_response(agent.content))

CampaignResult(info, cs, emails) ==
    [company_info |-> info, contacts |-> cs, generated_emails |-> emails]

\* _process_company returned None
NoResult == [company_info |-> None, contacts |-> <<>>, generated_emails |-> <<>>]

\* sum(len(r.contacts) for r in results)
RECURSIVE SumContacts(_)
SumContacts(results) ==
    IF results = <<>> THEN 0 ELSE Len(Head(results).contacts) + SumContacts(Tail(results))

\* sum(len(r.generated_emails) for r in results)
RECURSIVE SumEmails(_)
SumEmails(results) ==
    IF results = <<>> THEN 0
    ELSE Len(Head(results).generated_emails) + SumEmails(Tail(results))

\* a count of the companies discovered instead of the companies kept
TotalCompaniesDiscovered(results, discovered) == Len(discovered)

\* the total_companies of the final report
TotalCompanies(results, discovered) == Len(results)

\* the report returned when discovery finds nothing
EmptyReport ==
    [results |-> <<>>, total_companies |-> 0, total_contacts |-> 0, total_emails |-> 0]

\* the report returned after the loop over the companies
FinalReport(results, discovered) ==
    [ results |-> results,
      total_companies |-> TotalCompanies(results, discovered),
      total_contacts |-> SumContacts(results),
      total_emails |-> SumEmails(results) ]

\* a progress update; progress is the fraction num/den, keys the keys of the
\* dictionary yielded
Update(status, num, den) ==
    [ status |-> status, progress |-> [num |-> num, den |-> den],
      keys |-> {"status", "message", "progress"},
      company_name |-> <<>>, company_number |-> 0, count |-> 0, emails_generated |-> 0,
      results |-> <<>>, total_companies |-> 0, total_contacts |-> 0, total_emails |-> 0 ]

StartingUpdate == Update("starting", 0, 10)
ErrorUpdate == Update("error", 0, 10)
DiscoveringUpdate == Update("discovering", 1, 10)

DiscoveredUpdate(found) ==
    [Update("discovered", 2, 10) EXCEPT
        !.keys = @ \cup {"companies_found"}, !.count = Len(found)]

\* an error update where the run that discovered nothing completes
NoCompaniesError == ErrorUpdate

\* the completed update of a run that discovered nothing
NoCompaniesUpdate == [Update("completed", 10, 10) EXCEPT !.keys = @ \cup {"results"}]

\* a processing update that already counts its company as done
ProcessingUpdateAhead(i, found) ==
    [Update("processing", 2 * Len(found) + 6 * i, 10 * Len(found)) EXCEPT
        !.keys = @ \cup {"current_company", "company_number", "total_companies"},
        !.company_name = found[i].company_name,
        !.company_number = i,
        !.total_companies = Len(found)]

\* 0.2 + (idx - 1) / len(companies) * 0.6
ProcessingUpdate(i, found) ==
    [Update("processing", 2 * Len(found) + 6 * (i - 1), 10 * Len(found)) EXCEPT
        !.keys = @ \cup {"current_company", "company_number", "total_companies"},
        !.company_name = found[i].company_name,
        !.company_number = i,
        !.total_companies = Len(found)]

\* 0.2 + idx / len(companies) * 0.6
CompletedCompanyUpdate(i, found, result) ==
    [Update("completed_company", 2 * Len(found) + 6 * i, 10 * Len(found)) EXCEPT
        !.keys = @ \cup {"company_name", "contacts_found", "emails_generated"},
        !.company_name = found[i].company_name,
        !.count = Len(result.contacts),
        !.emails_generated = Len(result.generated_emails)]

CompletedUpdate(results, discovered) ==
    [Update("completed", 10, 10) EXCEPT
        !.keys = @ \cup {"results", "total_companies", "total_contacts", "total_emails",
                         "execution_time"},
        !.results = results,
        !.total_companies = FinalReport(results, discovered).total_companies,
        !.total_contacts = FinalReport(results, discovered).total_contacts,
        !.total_emails = FinalReport(results, discovered).total_emails]

-----------------------------------------------------------------------------
(* Inputs of a campaign run *)

DigitTok(p) == <<"1", "2", "3", "4", "5", "6">>[p]
CompanyNameTok(k) == <<"Acme", "Beta", "Gamma", "Delta">>[k]
PersonNameTok(k) == <<"Ana", "Bo", "Cy", "Di">>[k]

HeaderLine(p, name) == <<"**", "Company", Space, DigitTok(p), ":", Space, name, "**">>

\* the p-th section of a response, its company the k-th that names a
\* website: by a labelled field, a markdown link or a bare URL in turn
SiteSection(p, k) ==
    << HeaderLine(p, CompanyNameTok(k)),
       CASE k % 3 = 1 -> <<"2", ".", Space, "**", "Website", ":", "**", Space,
                           "https", ":", "//acme.com">>
         [] k % 3 = 2 -> <<"Fintech software", Space, "[", "site", "]", "(",
                           "https", ":", "//beta.io", ")">>
         [] OTHER -> <<"Fintech software", Space, "https", ":", "//beta.io">> >>

\* a section that names no website
JunkSection(p) ==
    << HeaderLine(p, "Nowhere"), <<"Fintech software", Space, "Fintech software">> >>

Count(kinds, kind) == Cardinality({i \in 1..Len(kinds) : kinds[i] = kind})

\* the sections of a response by kind: the sections that name no website
\* come together, after the first of the others
SectionKinds ==
    { [i \in 1..(n + j) |-> IF i = 1 /\ n > 0 THEN "site"
                            ELSE IF i <= j + (IF n > 0 THEN 1 ELSE 0) THEN "junk"
                            ELSE "site"] :
        n \in 0..MaxCompanies, j \in 0..MaxJunk }

RECURSIVE SectionsOf(_, _)
SectionsOf(kinds, p) ==
    IF p > Len(kinds) THEN <<>>
    ELSE (IF kinds[p] = "site"
          THEN SiteSection(p, Count(SubSeq(kinds, 1, p), "site"))
          ELSE JunkSection(p))
         \o SectionsOf(kinds, p + 1)

\* a discovery response: a line of prose and the sections
CampaignResponse(kinds) == << <<"Hello">> >> \o SectionsOf(kinds, 1)

DiscoveryOutcomes ==
    {AgentRaises, AgentEmpty} \cup {AgentContent(CampaignResponse(ks)) : ks \in SectionKinds}

\* the research text of the campaign runs: two sections of bullets
ExampleResearchText ==
    << <<"Challenges", ":">>,
       <<"-", Space, "Slow onboarding">>,
       <<"-", Space, "High churn">>,
       <<"Growth", ":">>,
       <<"-", Space, "New market">> >>

CampaignResearchOutcomes == {AgentRaises, AgentEmpty, AgentContent(ExampleResearchText)}

RECURSIVE ContactSections(_, _)
ContactSections(k, n) ==
    IF k > n THEN <<>>
    ELSE << <<"Contact", Space, DigitTok(k), ":">>,
            <<"-", Space, "Name", ":", Space, PersonNameTok(k)>>,
            <<"-", Space, "Title", ":", Space, "CTO">> >>
         \o ContactSections(k + 1, n)

\* a contact response with n complete contacts; untitled adds a section
\* that gives a name and no title
ContactResponse(n, untitled) ==
    << <<"Hello">> >> \o ContactSections(1, n)
    \o (IF untitled
        THEN << <<"Contact", Space, DigitTok(n + 1), ":">>, <<"Name", ":", Space, "Di">> >>
        ELSE <<>>)

ContactOutcomesUpTo(most) ==
    {AgentRaises, AgentEmpty}
    \cup {AgentContent(ContactResponse(n, u)) : n \in 0..most, u \in BOOLEAN}

ContactOutcomes ==
    ContactOutcomesUpTo(IF mode = "company" THEN MaxCompanyContacts ELSE MaxContacts)

\* the email of the campaign runs, in the shape the prompt asks for
ExampleEmailText ==
    << <<"Subject", ":", Space, "Hello">>, <<>>, <<"Hello", Space, "Acme">>, <<"Best">> >>

EmailOutcomes == {AgentRaises, AgentEmpty, AgentContent(ExampleEmailText)}

-----------------------------------------------------------------------------
(* A campaign run: execute_campaign and execute_campaign_streaming *)

InitCampaign ==
    /\ arg = <<>>
    /\ ret = NotRun
    /\ mode \in {"sync", "stream"}
    /\ pc = "start"
    /\ outcome = "running"
    /\ companies = <<>>
    /\ idx = 0
    /\ company_info = None
    /\ contacts = <<>>
    /\ cidx = 0
    /\ generated_emails = <<>>
    /\ campaign_results = <<>>
    /\ report = None
    /\ events = <<>>
    /\ calls = [a \in Agents |-> 0]
    /\ response = NotRun
    /\ agent_ok = NotRun
    /\ log = <<>>
    /\ failed_companies = {}
    /\ request = NotRun
    /\ saved = NotRun
    /\ reply = NotRun
    /\ consumer = "reading"
    /\ files = <<>>
    /\ clock = 0
    /\ saves = <<>>

\* an exception left the stage before its agent was run
NoRun == [kind |-> "escape", content |-> <<>>]

\* a stage of the run entered for a company (and a contact), with what the
\* run() of its agent did
Entered(agent, company, contact, escapes, result) ==
    [ agent |-> agent, company |-> company, contact |-> contact,
      result |-> IF escapes THEN NoRun ELSE result ]

\* a call that is repeated once
InvocationsWithRetry(escapes) == IF escapes THEN 0 ELSE 2

\* run() is called once, inside the try block of the stage
Invocations(escapes) == IF escapes THEN 0 ELSE 1

\* the streaming method yields the updates, the synchronous one only logs
Emit(updates) == events' = IF mode = "stream" THEN events \o updates ELSE events

\* how a method that raises ends: execute_campaign raises to its caller,
\* the generator has yielded its error update and returns
Failed(exception) == outcome' = IF mode = "sync" THEN exception ELSE "returned"

\* entry of the method: the streaming method yields "starting"
Start ==
    /\ UNCHANGED evars
    /\ pc = "start"
    /\ pc' = "validate"
    /\ Emit(<<StartingUpdate>>)
    /\ UNCHANGED <<arg, ret, agent_ok, response, mode, outcome, companies, idx,
                   company_info, contacts, cidx, generated_emails, campaign_results,
                   report, calls, log, failed_companies>>

\* "Validate agents before starting"
Validate ==
    /\ UNCHANGED evars
    /\ pc = "validate"
    /\ \E constructible \in [Agents -> BOOLEAN] :
        /\ agent_ok' = [run |-> TRUE, val |-> constructible]
        /\ IF validate_agents(constructible)
           THEN /\ pc' = "discover"
                /\ Emit(<<DiscoveringUpdate>>)
                /\ UNCHANGED outcome
           ELSE /\ pc' = "done"
                /\ Emit(<<ErrorUpdate>>)
                /\ Failed("ValueError")
    /\ UNCHANGED <<arg, ret, response, mode, companies, idx, company_info, contacts, cidx,
                   generated_emails, campaign_results, report, calls, log, failed_companies>>

\* the call of discover_companies and what follows it up to the loop
Discover ==
    /\ UNCHANGED evars
    /\ pc = "discover"
    /\ \E agent \in DiscoveryOutcomes :
        LET r == discover_companies(agent)
        IN  /\ response' = [run |-> TRUE, val |-> agent]
            /\ log' = Append(log, Entered("company_finder", 0, 0, FALSE, agent))
            /\ IF r.raised
               THEN /\ pc' = "done"
                    /\ Emit(<<ErrorUpdate>>)
                    /\ Failed("raised")
                    /\ UNCHANGED <<companies, idx, report>>
               ELSE IF r.val = <<>>
               THEN /\ pc' = "done"
                    /\ Emit(<<DiscoveredUpdate(r.val), NoCompaniesUpdate>>)
                    /\ outcome' = "returned"
                    /\ report' = IF mode = "sync" THEN Some(EmptyReport) ELSE report
                    /\ UNCHANGED <<companies, idx>>
               ELSE /\ pc' = "company"
                    /\ Emit(<<DiscoveredUpdate(r.val)>>)
                    /\ companies' = r.val
                    /\ idx' = 1
                    /\ UNCHANGED <<outcome, report>>
    /\ calls' = [calls EXCEPT !["company_finder"] = @ + Invocations(FALSE)]
    /\ UNCHANGED <<arg, ret, agent_ok, mode, company_info, contacts, cidx, generated_emails,
                   campaign_results, failed_companies>>

\* head of the loop over the companies: the streaming method yields
\* "processing" before it calls _process_company
BeginCompany ==
    /\ UNCHANGED evars
    /\ pc = "company"
    /\ pc' = "research"
    /\ Emit(<<ProcessingUpdate(idx, companies)>>)
    /\ log' = <<>>
    /\ UNCHANGED <<arg, ret, agent_ok, response, mode, outcome, companies, idx,
                   company_info, contacts, cidx, generated_emails, campaign_results,
                   report, calls, failed_companies>>

\* a loop that keeps whatever _process_company returned
ResultKeptAlways(result) == TRUE

\* "if result:" of the two loops
ResultKept(result) == result # NoResult

\* a loop that reports every company as completed
AfterCompanyUpdatesAlways(i, found, result) ==
    <<CompletedCompanyUpdate(i, found, result)>>

\* the updates the streaming loop yields once _process_company has returned
AfterCompanyUpdates(i, found, result) ==
    IF ResultKept(result) THEN <<CompletedCompanyUpdate(i, found, result)>> ELSE <<>>

\* the result put in front of the list
ResultsAfterPrepend(results, result) ==
    IF ResultKept(result) THEN <<result>> \o results ELSE results

\* "if result: campaign_results.append(result)"
ResultsAfter(results, result) ==
    IF ResultKept(result) THEN Append(results, result) ELSE results

\* _process_company returns result: the rest of the body of the loop
CompanyReturns(result) ==
    /\ campaign_results' = ResultsAfter(campaign_results, result)
    /\ Emit(AfterCompanyUpdates(idx, companies, result))
    /\ idx' = idx + 1
    /\ pc' = IF idx = Len(companies) THEN "finish" ELSE "company"
    /\ company_info' = None
    /\ contacts' = <<>>
    /\ cidx' = 0
    /\ generated_emails' = <<>>

\* what _process_company does with an exception no stage has caught
ProcessCompanyExcept == NoResult

\* num_companies of CampaignConfig: default, ge, le
NumCompaniesDefault == 5
NumCompaniesMin == 1
NumCompaniesMax == 20

\* the Literal of service_type / SERVICE_TYPES
SERVICE_TYPES ==
    { "Software Solution", "Consulting Services", "Professional Services",
      "Technology Platform", "Custom Development" }

COMPANY_CATEGORIES ==
    { "SaaS/Technology Companies", "E-commerce/Retail", "Financial Services",
      "Healthcare/Biotech", "Manufacturing/Industrial" }

\* a CampaignConfig every check accepts
ValidConfig ==
    [ outreach_config |->
          [ company_category |-> "SaaS/Technology Companies",
            target_departments |-> <<"Engineering/Tech">>,
            service_type |-> "Software Solution" ],
      sender_details |-> SenderDetails,
      num_companies |-> NumCompaniesDefault ]

\* the request bodies posted: the valid one, one that asks for a single
\* company, and one per kind of error
Configs ==
    { ValidConfig,
      [ValidConfig EXCEPT !.outreach_config.company_category = "Bakeries"],
      [ValidConfig EXCEPT !.outreach_config.target_departments = <<>>],
      [ValidConfig EXCEPT !.outreach_config.service_type = "Catering"],
      [ValidConfig EXCEPT !.sender_details.name = ""],
      [ValidConfig EXCEPT !.sender_details.email = ""],
      [ValidConfig EXCEPT !.sender_details.organization = ""],
      [ValidConfig EXCEPT !.sender_details.service_offered = ""],
      [ValidConfig EXCEPT !.num_companies = NumCompaniesMin],
      [ValidConfig EXCEPT !.num_companies = NumCompaniesMin - 1],
      [ValidConfig EXCEPT !.num_companies = NumCompaniesMax + 1] }

\* campaign_config.sender_details of the run
Sender == IF request.run THEN request.val.sender_details ELSE SenderDetails

\* campaign_config.num_companies of the run: it goes into the prompt of the
\* discovery agent and nowhere else
Requested == IF request.run THEN request.val.num_companies ELSE NumCompaniesDefault

\* the companies a discovery of a run can return
CompanyPool ==
    UNION { {discover_companies(a).val[i] : i \in 1..Len(discover_companies(a).val)} :
            a \in {x \in DiscoveryOutcomes : x.kind = "content"} }

\* "Step 2: Research company"; escapes is an exception the research stage
\* does not catch itself
Research ==
    /\ UNCHANGED evars
    /\ pc = "research"
    /\ \E escapes \in BOOLEAN, agent \in CampaignResearchOutcomes :
        \E r \in {IF escapes THEN Raised ELSE research_company(companies[idx], agent)} :
            /\ calls' = [calls EXCEPT
                            !["company_researcher"] = @ + Invocations(escapes)]
            /\ log' = Append(log, Entered("company_researcher", idx, 0, escapes, agent))
            /\ failed_companies' = failed_companies \cup (IF escapes THEN {idx} ELSE {})
            /\ IF r.raised
               THEN CompanyReturns(ProcessCompanyExcept)
               ELSE /\ company_info' = r.val
                    /\ pc' = "contacts"
                    /\ UNCHANGED <<idx, contacts, cidx, generated_emails, campaign_results,
                                   events>>
    /\ UNCHANGED <<arg, ret, agent_ok, response, mode, outcome, companies, report>>

\* a company without contacts is dropped
NoContactsDropped(info) == NoResult

\* "Still return result with company info"
NoContactsResult(info) == CampaignResult(info, <<>>, <<>>)

\* "Step 3: Find contacts"
Contacts ==
    /\ UNCHANGED evars
    /\ pc = "contacts"
    /\ \E escapes \in BOOLEAN, agent \in ContactOutcomes :
        \E found \in {IF escapes THEN <<>> ELSE find_contacts(companies[idx], agent)} :
            /\ calls' = [calls EXCEPT !["contact_finder"] = @ + Invocations(escapes)]
            /\ log' = Append(log, Entered("contact_finder", idx, 0, escapes, agent))
            /\ failed_companies' = failed_companies \cup (IF escapes THEN {idx} ELSE {})
            /\ IF escapes THEN CompanyReturns(ProcessCompanyExcept)
               ELSE IF found = <<>>
               THEN CompanyReturns(NoContactsResult(company_info))
               ELSE /\ contacts' = found
                    /\ cidx' = 1
                    /\ generated_emails' = <<>>
                    /\ pc' = "email"
                    /\ UNCHANGED <<idx, company_info, campaign_results, events>>
    /\ UNCHANGED <<arg, ret, agent_ok, response, mode, outcome, companies, report>>

\* a failure for one contact that loses the emails generated before it
EmailsAfterReset(emails, r) == IF r.raised THEN <<>> ELSE Append(emails, r.val)

\* the list of emails after the attempt for one contact: an exception of
\* generate_email skips the contact
EmailsAfter(emails, r) == IF r.raised THEN emails ELSE Append(emails, r.val)

\* "Step 4: Generate emails": one pass of the loop over the contacts
Email ==
    /\ UNCHANGED evars
    /\ pc = "email"
    /\ \E escapes \in BOOLEAN, agent \in EmailOutcomes :
        \E r \in {generate_email(company_info, Sender, escapes, agent)} :
            /\ calls' = [calls EXCEPT !["email_creator"] = @ + Invocations(escapes)]
            /\ log' = Append(log, Entered("email_creator", idx, cidx, escapes, agent))
            /\ IF cidx < Len(contacts)
               THEN /\ generated_emails' = EmailsAfter(generated_emails, r)
                    /\ cidx' = cidx + 1
                    /\ UNCHANGED <<pc, idx, company_info, contacts, campaign_results, events>>
               ELSE CompanyReturns(CampaignResult(company_info, contacts,
                                                  EmailsAfter(generated_emails, r)))
    /\ UNCHANGED <<arg, ret, agent_ok, response, mode, outcome, companies, report,
                   failed_companies>>

\* "Calculate statistics" / "Final results"
Finish ==
    /\ UNCHANGED evars
    /\ pc = "finish"
    /\ pc' = "done"
    /\ outcome' = "returned"
    /\ report' = IF mode = "sync"
                 THEN Some(FinalReport(campaign_results, companies))
                 ELSE report
    /\ Emit(<<CompletedUpdate(campaign_results, companies)>>)
    /\ UNCHANGED <<arg, ret, agent_ok, response, mode, companies, idx, company_info,
                   contacts, cidx, generated_emails, campaign_results, calls, log,
                   failed_companies>>

Next ==
    \/ Start
    \/ Validate
    \/ Discover
    \/ BeginCompany
    \/ Research
    \/ Contacts
    \/ Email
    \/ Finish

Spec == InitCampaign /\ [][Next]_vars

\* _process_company called for one company of a discovery
InitCompany ==
    /\ arg = <<>>
    /\ ret = NotRun
    /\ mode = "company"
    /\ pc = "research"
    /\ outcome = "running"
    /\ \E company_data \in CompanyPool : companies = <<company_data>>
    /\ idx = 1
    /\ company_info = None
    /\ contacts = <<>>
    /\ cidx = 0
    /\ generated_emails = <<>>
    /\ campaign_results = <<>>
    /\ report = None
    /\ events = <<>>
    /\ calls = [a \in Agents |-> 0]
    /\ response = NotRun
    /\ agent_ok = NotRun
    /\ log = <<>>
    /\ failed_companies = {}
    /\ request = NotRun
    /\ saved = NotRun
    /\ reply = NotRun
    /\ consumer = "reading"
    /\ files = <<>>
    /\ clock = 0
    /\ saves = <<>>

NextCompany ==
    \/ Research
    \/ Contacts
    \/ Email

SpecCompany == InitCompany /\ [][NextCompany]_vars

-----------------------------------------------------------------------------
(* The execution endpoints: POST /execute/campaign and /execute/campaign/stream *)

\* the request body as the model of CampaignConfig accepts it: the Literal of
\* service_type and ge/le of num_companies; a str field accepts the empty
\* string, a List[str] the empty list
CampaignConfigAccepted(config) ==
    /\ config.outreach_config.service_type \in SERVICE_TYPES
    /\ config.num_companies >= NumCompaniesMin
    /\ config.num_companies <= NumCompaniesMax

\* the errors of POST /campaign/configure
validate_campaign_config(config) ==
    (IF config.outreach_config.company_category \notin COMPANY_CATEGORIES
     THEN {"Invalid company category"} ELSE {})
    \cup (IF config.outreach_config.service_type \notin SERVICE_TYPES
          THEN {"Invalid service type"} ELSE {})
    \cup (IF config.outreach_config.target_departments = <<>>
          THEN {"At least one target department is required"} ELSE {})
    \cup (IF config.num_companies < NumCompaniesMin \/ config.num_companies > NumCompaniesMax
          THEN {"Number of companies must be between 1 and 20"} ELSE {})
    \cup (IF config.sender_details.name = "" THEN {"Sender name is required"} ELSE {})
    \cup (IF config.sender_details.email = "" THEN {"Sender email is required"} ELSE {})
    \cup (IF config.sender_details.organization = ""
          THEN {"Organization name is required"} ELSE {})
    \cup (IF config.sender_details.service_offered = ""
          THEN {"Service description is required"} ELSE {})

Reply(status, body) == [run |-> TRUE, val |-> [status |-> status, body |-> body]]

\* the body of a reply that carries no report
Detail(text) ==
    [ detail |-> text, campaign_id |-> None, results |-> <<>>, total_companies |-> 0,
      total_contacts |-> 0, total_emails |-> 0, frames |-> <<>> ]

\* the CampaignExecutionResponse as the body of the reply
ReportBody(result, campaign_id) ==
    [ detail |-> "", campaign_id |-> campaign_id, results |-> result.results,
      total_companies |-> result.total_companies,
      total_contacts |-> result.total_contacts,
      total_emails |-> result.total_emails, frames |-> <<>> ]

\* f"campaign_{timestamp}"
CampaignId == <<"campaign_", "2026-11-06_10-00-00">>

\* save_campaign returns the identifier or re-raises what went wrong
SaveOutcomes == {Raised, Returned(CampaignId)}

\* a save that raises fails the request
SaveReplyStrict(result, s) ==
    IF s.raised
    THEN Reply(500, Detail("Campaign execution failed"))
    ELSE Reply(200, ReportBody(result, Some(s.val)))

\* "Save campaign to storage" and the return of the endpoint: the identifier
\* is set on the result after the save, a save that raises is logged
SaveReply(result, s) ==
    Reply(200, ReportBody(result, IF s.raised THEN None ELSE Some(s.val)))

\* the except clauses of the synchronous endpoint
ErrorReply(exception) ==
    IF exception = "ValueError"
    THEN Reply(400, Detail("ValueError"))
    ELSE Reply(500, Detail("Campaign execution failed"))

\* json.dumps takes the updates made of strings, numbers and lists of them;
\* a CampaignResult in the results makes it raise TypeError
Serializable(update) == update.results = <<>>

Frame(update) == [data |-> update]

\* the frame of the except clause of event_generator
EndpointErrorFrame ==
    [data |-> [Update("error", 0, 10) EXCEPT !.keys = {"status", "message"}]]

\* event_generator: one frame per update until json.dumps raises
RECURSIVE event_generator(_)
event_generator(updates) ==
    IF updates = <<>> THEN <<>>
    ELSE IF Serializable(Head(updates))
         THEN <<Frame(Head(updates))>> \o event_generator(Tail(updates))
         ELSE <<EndpointErrorFrame>>

StreamReply(updates) ==
    Reply(200, [Detail("") EXCEPT !.frames = event_generator(updates)])

\* a request to one of the two endpoints
InitRequest(configs) ==
    /\ arg = <<>>
    /\ ret = NotRun
    /\ mode \in {"sync", "stream"}
    /\ pc = "request"
    /\ outcome = "running"
    /\ companies = <<>>
    /\ idx = 0
    /\ company_info = None
    /\ contacts = <<>>
    /\ cidx = 0
    /\ generated_emails = <<>>
    /\ campaign_results = <<>>
    /\ report = None
    /\ events = <<>>
    /\ calls = [a \in Agents |-> 0]
    /\ response = NotRun
    /\ agent_ok = NotRun
    /\ log = <<>>
    /\ failed_companies = {}
    /\ request \in {[run |-> TRUE, val |-> c] : c \in configs}
    /\ saved = NotRun
    /\ reply = NotRun
    /\ consumer = "reading"
    /\ files = <<>>
    /\ clock = 0
    /\ saves = <<>>

\* the body is validated against CampaignConfig before the endpoint runs
Request ==
    /\ pc = "request"
    /\ IF CampaignConfigAccepted(request.val)
       THEN /\ pc' = "start"
            /\ UNCHANGED reply
       ELSE /\ pc' = "responded"
            /\ reply' = Reply(422, Detail("validation error"))
    /\ UNCHANGED <<arg, ret, mode, outcome, companies, idx, company_info, contacts, cidx,
                   generated_emails, campaign_results, report, events, calls, response,
                   agent_ok, log, failed_companies, request, saved>>
    /\ UNCHANGED <<consumer, files, clock, saves>>

\* what the endpoint does once the orchestrator has ended
Respond ==
    /\ pc = "done"
    /\ request.run
    /\ pc' = "responded"
    /\ IF mode = "sync"
       THEN IF outcome = "returned"
            THEN \E s \in SaveOutcomes :
                    /\ saved' = [run |-> TRUE, val |-> s]
                    /\ reply' = SaveReply(report.val, s)
            ELSE /\ reply' = ErrorReply(outcome)
                 /\ UNCHANGED saved
       ELSE /\ reply' = StreamReply(events)
            /\ UNCHANGED saved
    /\ UNCHANGED <<arg, ret, mode, outcome, companies, idx, company_info, contacts, cidx,
                   generated_emails, campaign_results, report, events, calls, response,
                   agent_ok, log, failed_companies, request>>
    /\ UNCHANGED <<consumer, files, clock, saves>>

NextEndpoint ==
    \/ Request
    \/ Next
    \/ Respond

\* requests with a configuration every check accepts
InitEndpoint == InitRequest({ValidConfig})

SpecEndpoint == InitEndpoint /\ [][NextEndpoint]_vars

\* requests with any of the configurations
InitAnyRequest == InitRequest(Configs)

SpecRequest == InitAnyRequest /\ [][NextEndpoint]_vars

-----------------------------------------------------------------------------
(* Properties of the campaign report *)

\* the pairs <<i, j>> of a result and one of the members of its list f
Members(results, f(_)) ==
    UNION { {<<i, j>> : j \in 1..Len(f(results[i]))} : i \in 1..Len(results) }

ContactsOfResult(r) == r.contacts
EmailsOfResult(r) == r.generated_emails

\* C1: every report execute_campaign returns, the one of the early return
\* included, has total_companies = len(results), total_contacts = the number
\* of contacts over all results and total_emails = the number of emails over
\* all results, whatever succeeded or failed per company and per contact.
ReportTotalsConsistent ==
    report.some =>
        /\ report.val.total_companies = Len(report.val.results)
        /\ report.val.total_contacts =
                Cardinality(Members(report.val.results, ContactsOfResult))
        /\ report.val.total_emails =
                Cardinality(Members(report.val.results, EmailsOfResult))

\* a report of a run in which one of two companies failed and the email of
\* the contact of the other was skipped
ReportAfterFailures ==
    /\ report.some
    /\ Len(companies) = 2
    /\ Len(report.val.results) = 1
    /\ report.val.total_contacts = 1
    /\ report.val.total_emails = 0

\* the text has no company marker
NoMarker(text) == \A i \in 1..Len(Lines(text)) : ~HasHeader(Lines(text)[i])

\* the discovery agent gave no response, an empty one, or one without marker
NothingDiscovered ==
    /\ response.run
    /\ \/ response.val.kind = "empty"
       \/ response.val.kind = "content" /\ NoMarker(response.val.content)

\* C2: when the discovery agent returns an empty or absent response or one
\* with no company marker, discover_companies returns the empty list and
\* execute_campaign returns the all-zero report with no results, without
\* raising and without a run of the research, contact or email agent.
EmptyDiscoveryEndsNormally ==
    NothingDiscovered =>
        /\ discover_companies(response.val) = Returned(<<>>)
        /\ pc = "done"
        /\ outcome = "returned"
        /\ mode = "sync" =>
            /\ report.some
            /\ report.val.results = <<>>
            /\ report.val.total_companies = 0
            /\ report.val.total_contacts = 0
            /\ report.val.total_emails = 0
        /\ \A a \in Agents \ {"company_finder"} : calls[a] = 0

\* execute_campaign has returned after a response of prose without marker
ReturnedAfterProse ==
    /\ NothingDiscovered
    /\ response.val.kind = "content"
    /\ response.val.content # <<>>
    /\ mode = "sync"
    /\ report.some

-----------------------------------------------------------------------------
(* Properties of the discovery parser *)

\* one of the three lookups finds a website in the section
SomeLookupSucceeds(section) ==
    \/ Truthy(extract_numbered_field(section, <<"website", "url">>))
    \/ Truthy(extract_markdown_url(section))
    \/ Truthy(extract_url(section))

\* the sections of a response, one per marker
SectionsIn(text) ==
    [i \in 1..Len(HeaderLines(Lines(text))) |->
        SectionOf(Lines(text), HeaderLines(Lines(text)), i)]

\* the sections of a response in which a lookup succeeds
SectionsWithWebsite(text) ==
    {i \in 1..Len(SectionsIn(text)) : SomeLookupSucceeds(SectionsIn(text)[i])}

\* C3: a section in which none of the three website lookups succeeds is not
\* in the list _parse_companies_response returns: the list has at most one
\* record per section with a website, each record under the name of such a
\* section, and every record has a non-empty company_name and website_url.
SectionsWithoutWebsiteExcluded ==
    ret.run =>
        /\ Len(ret.val) <= Cardinality(SectionsWithWebsite(arg))
        /\ \A k \in 1..Len(ret.val) :
            /\ ret.val[k].company_name # <<>>
            /\ Truthy(ret.val[k].website_url)
            /\ \E i \in SectionsWithWebsite(arg) :
                    ret.val[k].company_name = HeaderName(arg[HeaderLines(arg)[i]])

\* a response of two sections, the first long enough and without a website,
\* of which only the second is returned
SectionWithoutWebsiteDropped ==
    /\ ret.run
    /\ Len(SectionsIn(arg)) = 2
    /\ TextLen(SectionsIn(arg)[1]) >= MinSectionLen
    /\ HeaderName(arg[HeaderLines(arg)[1]]) # <<>>
    /\ SectionsWithWebsite(arg) = {2}
    /\ Len(ret.val) = 1

\* C4: end to end, when the discovery response has k sections with an
\* extractable website and any number without, the report of execute_campaign
\* has total_companies <= k and every company_info of it has a non-empty
\* website_url.
ReportBoundedByValidSections ==
    (report.some /\ response.run /\ response.val.kind = "content") =>
        /\ report.val.total_companies
                <= Cardinality(SectionsWithWebsite(response.val.content))
        /\ \A i \in 1..Len(report.val.results) :
                Truthy(report.val.results[i].company_info.website_url)

\* the scenario of two sections with a website and one without, both
\* companies in the report
TwoOfThreeSectionsReported ==
    /\ report.some
    /\ response.run
    /\ response.val.kind = "content"
    /\ Len(SectionsIn(response.val.content)) = 3
    /\ Cardinality(SectionsWithWebsite(response.val.content)) = 2
    /\ report.val.total_companies = 2

-----------------------------------------------------------------------------
(* Properties of the research stage *)

\* C5: research_company always returns a profile and never raises: when the
\* agent raises, gives no response or content that cannot be parsed, the
\* profile has the company_name and the website_url of the candidate.
ResearchNeverRaises ==
    ret.run =>
        /\ ~ret.val.raised
        /\ arg.agent.kind \in {"raise", "empty", "object"} =>
                /\ ret.val.val.company_name = arg.company_data.company_name
                /\ ret.val.val.website_url = arg.company_data.website_url

\* research_company has returned the basic profile after the agent raised
BasicProfileAfterRaise ==
    /\ ret.run
    /\ arg.agent.kind = "raise"
    /\ ~ret.val.raised
    /\ ret.val.val.company_name = arg.company_data.company_name
    /\ Truthy(ret.val.val.website_url)

-----------------------------------------------------------------------------
(* Properties of the email parser *)

\* the lines that, stripped and in lower case, begin with "subject:"
SubjectLinesOf(lines) ==
    {i \in 1..Len(lines) :
        LET l == StripLine(lines[i])
        IN  Len(l) >= 2 /\ Lower(l[1]) = "subject" /\ l[2] = ":"}

\* no such line, or nothing after the colon of the last of them
SubjectMissing(lines) ==
    \/ SubjectLinesOf(lines) = {}
    \/ \E i \in SubjectLinesOf(lines) :
        /\ \A j \in SubjectLinesOf(lines) : j <= i
        /\ BlankLine(SubSeq(lines[i], IndexOf(lines[i], ":") + 1, Len(lines[i])))

\* nothing but blank lines and subject lines after the first blank line
BodyMissing(lines) ==
    LET blank == {i \in 1..Len(lines) : BlankLine(lines[i])}
    IN  \/ blank = {}
        \/ \E b \in blank :
            /\ \A c \in blank : b <= c
            /\ \A i \in (b + 1)..Len(lines) :
                    BlankLine(lines[i]) \/ i \in SubjectLinesOf(lines)

\* no line of the text begins with the literal "Subject:"
NoLiteralSubject(text) ==
    \A i \in 1..Len(text) :
        ~(Len(text[i]) >= 2 /\ text[i][1] = "Subject" /\ text[i][2] = ":")

-----------------------------------------------------------------------------
(* Properties of the list extraction *)

\* a line that is neither blank nor a list item: a header of a section
SectionHeaderLine(line) == ~BlankLine(line) /\ ListItemOf(line) = <<>>

\* the lines after the first line of a text up to the next section header
LinesToNextSection(text) ==
    LET later == {i \in 2..Len(text) : SectionHeaderLine(text[i])}
    IN  IF later = {} THEN SubSeq(text, 2, Len(text))
        ELSE SubSeq(text, 2, (CHOOSE i \in later : \A j \in later : i <= j) - 1)

\* C7 as stated: list extraction stops at the next section.  For the text
\* "Challenges:\n- Slow onboarding\n- High churn\nGrowth:\n- New market" and
\* the keyword "challenges" the result is exactly ["Slow onboarding", "High
\* churn"], and in general no bullet or numbered line that follows a later
\* header line is collected for the earlier keyword.
ListStopsAtNextSection ==
    (ret.run /\ arg.keywords[1] = "challenges") =>
        /\ arg.text = ExampleResearchText =>
                ret.val = Some(<< <<"Slow onboarding">>, <<"High churn">> >>)
        /\ ret.val.some => Len(ret.val.val) <= Len(ItemsOf(LinesToNextSection(arg.text)))

-----------------------------------------------------------------------------
(* Properties of the streaming run *)

\* the positions of the updates of a status
At(status) == {i \in 1..Len(events) : events[i].status = status}

\* a streaming run over at least one discovered company has ended
StreamEnded == mode = "stream" /\ pc = "done" /\ companies # <<>>

\* one starting, one discovering, one discovered and, as the last update, one
\* completed with progress 1.0
OneOfEachStage ==
    /\ Cardinality(At("starting")) = 1
    /\ Cardinality(At("discovering")) = 1
    /\ Cardinality(At("discovered")) = 1
    /\ At("completed") = {Len(events)}
    /\ events[Len(events)].progress.num = events[Len(events)].progress.den

\* C8 as stated: a streaming run over N >= 1 discovered companies yields one
\* starting, one discovering, one discovered, one processing/completed_company
\* pair per company that did not raise and no processing or completed_company
\* update outside such a pair, and one final completed update with progress 1.0.
StreamPairsPerCompany ==
    StreamEnded =>
        /\ OneOfEachStage
        /\ \A i \in At("processing") :
                i + 1 \in At("completed_company")
                /\ events[i + 1].company_name = events[i].company_name
        /\ \A i \in At("completed_company") : i - 1 \in At("processing")
        /\ Cardinality(At("processing")) = Len(campaign_results)

\* the k-th member of a set of positions, in increasing order
RECURSIVE Nth(_, _)
Nth(positions, k) ==
    LET least == CHOOSE i \in positions : \A j \in positions : i <= j
    IN  IF k = 1 THEN least ELSE Nth(positions \ {least}, k - 1)

\* C8: a streaming run over N >= 1 discovered companies yields one starting,
\* one discovering, one discovered, one processing update per discovered
\* company in order, a completed_company update directly after the processing
\* update of each company that did not raise and nowhere else, and one final
\* completed update with progress 1.0.
StreamProcessingPerCompany ==
    StreamEnded =>
        /\ OneOfEachStage
        /\ Cardinality(At("processing")) = Len(companies)
        /\ \A k \in 1..Len(companies) :
                /\ events[Nth(At("processing"), k)].company_number = k
                /\ events[Nth(At("processing"), k)].company_name = companies[k].company_name
        /\ Cardinality(At("completed_company")) = Len(campaign_results)
        /\ \A k \in 1..Len(campaign_results) :
                LET i == Nth(At("completed_company"), k)
                IN  /\ i - 1 \in At("processing")
                    /\ events[i].company_name = events[i - 1].company_name
                    /\ events[i].company_name = campaign_results[k].company_info.company_name
                    /\ events[i].count = Len(campaign_results[k].contacts)

\* a run over two companies of which the first raised: its processing update
\* is followed by the processing update of the second
ProcessingWithoutCompletion ==
    /\ StreamEnded
    /\ Len(companies) = 2
    /\ Len(campaign_results) = 1
    /\ [i \in 1..Len(events) |-> events[i].status] =
            <<"starting", "discovering", "discovered", "processing", "processing",
              "completed_company", "completed">>

\* the updates that can follow one another
NextStatus ==
    { <<"starting", "discovering">>, <<"starting", "error">>,
      <<"discovering", "discovered">>, <<"discovering", "error">>,
      <<"discovered", "processing">>, <<"discovered", "completed">>,
      <<"processing", "completed_company">>, <<"processing", "processing">>,
      <<"processing", "completed">>,
      <<"completed_company", "processing">>, <<"completed_company", "completed">> }

TerminalStatus == {"completed", "error"}

\* C9: a streaming run follows starting -> discovering -> discovered ->
\* per-company updates -> completed; it ends with exactly one terminal update
\* (completed or error), nothing is yielded after it, and an error update
\* directly follows starting or discovering, never discovered or a later one.
StreamStateMachine ==
    mode = "stream" =>
        /\ events # <<>> => events[1].status = "starting"
        /\ \A i \in 2..Len(events) : <<events[i - 1].status, events[i].status>> \in NextStatus
        /\ \A i \in 1..Len(events) :
                events[i].status \in TerminalStatus => i = Len(events) /\ pc = "done"
        /\ pc = "done" => events # <<>> /\ events[Len(events)].status \in TerminalStatus
        /\ \A i \in At("error") : i > 1 /\ events[i - 1].status \in {"starting", "discovering"}

\* a run that ended with the error update after discovery raised
ErrorAfterDiscovering ==
    /\ mode = "stream"
    /\ pc = "done"
    /\ [i \in 1..Len(events) |-> events[i].status] = <<"starting", "discovering", "error">>

\* validation has run and some agent could not be constructed
AgentsInvalid == agent_ok.run /\ \E a \in Agents : ~agent_ok.val[a]

\* C10: when validate_agents returns false the run fails at once, with no
\* run() of any agent: execute_campaign raises ValueError before discovery
\* is called, execute_campaign_streaming yields exactly starting and error.
ValidationFailureStopsRun ==
    AgentsInvalid =>
        /\ \A a \in Agents : calls[a] = 0
        /\ response = NotRun
        /\ pc = "done"
        /\ mode = "sync" => outcome = "ValueError" /\ report = None
        /\ mode = "stream" => outcome = "returned" /\ events = <<StartingUpdate, ErrorUpdate>>

\* a streaming run stopped by an email agent that could not be constructed
StreamStoppedByValidation ==
    /\ agent_ok.run
    /\ ~agent_ok.val["email_creator"]
    /\ agent_ok.val["company_finder"]
    /\ mode = "stream"
    /\ [i \in 1..Len(events) |-> events[i].status] = <<"starting", "error">>

-----------------------------------------------------------------------------
(* Failures of one company, one contact, one stage *)

\* the companies among the first n discovered whose processing no exception
\* ended, in discovery order
RECURSIVE Survivors(_)
Survivors(n) ==
    IF n = 0 THEN <<>>
    ELSE Survivors(n - 1) \o (IF n \in failed_companies THEN <<>> ELSE <<companies[n]>>)

\* the companies _process_company has returned for
Processed == IF pc \in {"research", "contacts", "email"} THEN idx - 1 ELSE
             IF companies = <<>> THEN 0 ELSE idx - 1

\* C11: a failure while processing company i never aborts the run: the
\* result list holds exactly the companies processed so far whose processing
\* did not fail, in discovery order, and a run that discovered companies ends
\* only after the last of them was processed, by returning; in the
\* synchronous and in the streaming variant.
FailedCompanyOmittedRunGoesOn ==
    /\ Len(campaign_results) = Len(Survivors(Processed))
    /\ \A k \in 1..Len(campaign_results) :
        /\ campaign_results[k] # NoResult
        /\ campaign_results[k].company_info.company_name = Survivors(Processed)[k].company_name
    /\ (pc = "done" /\ companies # <<>>) =>
        /\ Processed = Len(companies)
        /\ outcome = "returned"

\* a streaming run of two companies: the first failed, the second was
\* processed and is the only result
SecondCompanyProcessedAfterFailure ==
    /\ mode = "stream"
    /\ pc = "done"
    /\ Len(companies) = 2
    /\ failed_companies = {1}
    /\ Len(campaign_results) = 1
    /\ campaign_results[1].company_info.company_name = companies[2].company_name

\* the positions of the log at which the stage of an agent was entered
EntriesOf(agent) == {k \in 1..Len(log) : log[k].agent = agent}

\* a call of the contact agent that gives no contact: it raised, it returned
\* nothing, or no section of its response has a name and a title
YieldsNoContacts(e) ==
    \/ e.result.kind \in {"raise", "empty"}
    \/ /\ e.result.kind = "content"
       /\ find_contacts(companies[e.company], e.result) = <<>>

\* C12: if the contact agent raises, returns an empty response or yields no
\* parseable contact for a company, the company is still in the result list,
\* as a result with no contacts and no emails, and the email agent is not
\* invoked for it.
NoContactsCompanyRetained ==
    \A k \in EntriesOf("contact_finder") :
        YieldsNoContacts(log[k]) =>
            /\ EntriesOf("email_creator") = {}
            /\ Processed = log[k].company
            /\ campaign_results # <<>>
            /\ LET result == campaign_results[Len(campaign_results)]
               IN  /\ result.company_info.company_name =
                            companies[log[k].company].company_name
                   /\ result.contacts = <<>>
                   /\ result.generated_emails = <<>>

\* the contact agent answered with a section that has a name and no title:
\* the company is the second result of the run, without contacts
UntitledContactCompanyKept ==
    /\ Len(campaign_results) = 2
    /\ \E k \in EntriesOf("contact_finder") :
        /\ log[k].result.kind = "content"
        /\ Len(log[k].result.content) > 1
        /\ YieldsNoContacts(log[k])
        /\ log[k].company = 2
    /\ campaign_results[2].contacts = <<>>
    /\ campaign_results[1].contacts # <<>>

\* the company _process_company has just returned for, 0 when there is none
ReturnedCompany ==
    IF log # <<>> /\ log[1].agent = "company_researcher" /\ Processed = log[1].company
    THEN log[1].company
    ELSE 0

\* the result of the company that has just returned, when it was kept
LastResult == campaign_results[Len(campaign_results)]

\* the emails of the first k stages of the log: one for each contact whose
\* generate_email returned, in the order of the calls
RECURSIVE EmailsOfLog(_, _)
EmailsOfLog(k, info) ==
    IF k = 0 THEN <<>>
    ELSE EmailsOfLog(k - 1, info)
         \o (IF log[k].agent = "email_creator" /\ log[k].result.kind # "escape"
             THEN <<generate_email(info, Sender, FALSE, log[k].result).val>>
             ELSE <<>>)

\* C13: the result of a company holds all the contacts found for it, those
\* whose email generation failed included; email generation is attempted for
\* every contact, once and in contact order, whatever happened for the
\* contacts before; generated_emails holds the emails of the attempts that
\* returned, in that order, so len(generated_emails) <= len(contacts).
ContactsKeptEmailsInOrder ==
    (ReturnedCompany # 0 /\ ReturnedCompany \notin failed_companies) =>
        /\ EntriesOf("contact_finder") = {2}
        /\ LastResult.contacts = find_contacts(companies[ReturnedCompany], log[2].result)
        /\ Len(log) = 2 + Len(LastResult.contacts)
        /\ \A k \in 3..Len(log) :
            log[k].agent = "email_creator" /\ log[k].contact = k - 2
        /\ LastResult.generated_emails = EmailsOfLog(Len(log), LastResult.company_info)
        /\ Len(LastResult.generated_emails) <= Len(LastResult.contacts)

\* two contacts: email generation failed for the first and gave an email
\* for the second; both contacts are in the result
SecondContactEmailedAfterFailure ==
    /\ ReturnedCompany = 1
    /\ campaign_results # <<>>
    /\ Len(LastResult.contacts) = 2
    /\ Len(log) = 4
    /\ log[3].result.kind = "escape"
    /\ log[4].result.kind = "content"
    /\ Len(LastResult.generated_emails) = 1

\* the run() of the discovery agent raised
DiscoveryRaised == response.run /\ response.val.kind = "raise"

\* the run() of the agent of a later stage raised for the company in process
LaterAgentRaised ==
    \E k \in 1..Len(log) : log[k].agent # "company_finder" /\ log[k].result.kind = "raise"

\* C14: failures are run-fatal only at discovery and pre-flight.  If the
\* discovery agent raises, execute_campaign raises and produces no report, the
\* streaming variant ends with an error event, and no research, contact or
\* email agent is invoked; a raise of the research, contact or email agent
\* never makes the run raise, and a run that got past discovery returns.
OnlyDiscoveryFailureIsFatal ==
    /\ DiscoveryRaised =>
        /\ pc = "done"
        /\ report = None
        /\ mode = "sync" => outcome = "raised"
        /\ mode = "stream" => /\ outcome = "returned"
                              /\ events[Len(events)].status = "error"
        /\ \A a \in Agents \ {"company_finder"} : calls[a] = 0
    /\ LaterAgentRaised => outcome \in {"running", "returned"}
    /\ (pc = "done" /\ agent_ok.run /\ validate_agents(agent_ok.val) /\ ~DiscoveryRaised) =>
        outcome = "returned"

\* a synchronous run that raised because the discovery agent did
CampaignRaisedAtDiscovery ==
    /\ mode = "sync"
    /\ DiscoveryRaised
    /\ outcome = "raised"
    /\ calls["company_finder"] = 1

\* a synchronous run that returned a report although the research, the
\* contact and the email agent had all raised for its last company
ReportAfterLaterAgentsRaised ==
    /\ mode = "sync"
    /\ pc = "done"
    /\ report.some
    /\ \E k \in EntriesOf("company_researcher") : log[k].result.kind = "raise"
    /\ \E k \in EntriesOf("contact_finder") : log[k].result.kind = "raise"

\* no exception left a stage of the company in process before its agent ran
NoEscape == \A k \in 1..Len(log) : log[k].result.kind # "escape"

\* C15: if the writing agent raises or returns an empty response for a
\* contact, generate_email does not raise and returns one email, the fallback
\* built from the company and the sender; so when nothing but agent calls
\* fail for a company, its result has one email per contact.
WritingFailureGivesFallbackEmail ==
    (ReturnedCompany # 0 /\ NoEscape) =>
        /\ Len(LastResult.generated_emails) = Len(LastResult.contacts)
        /\ \A k \in EntriesOf("email_creator") :
            log[k].result.kind \in {"raise", "empty"} =>
                LastResult.generated_emails[log[k].contact] =
                    create_fallback_email(LastResult.company_info, SenderDetails)

\* the writing agent raised for the contact of a company: the result of the
\* company has the fallback email
FallbackEmailInResult ==
    /\ ReturnedCompany # 0
    /\ NoEscape
    /\ \E k \in EntriesOf("email_creator") : log[k].result.kind = "raise"
    /\ Len(LastResult.contacts) = 1
    /\ Len(LastResult.generated_emails) = 1
    /\ LastResult.generated_emails[1].subject[1] = "Thought you'd be interested -"

-----------------------------------------------------------------------------
(* The execution endpoints *)

\* C16: when save_campaign raises, the synchronous endpoint still answers 200
\* with the report execute_campaign returned: the same results and totals,
\* and no campaign_id
SaveFailureStillReturnsReport ==
    (pc = "responded" /\ saved.run /\ saved.val.raised) =>
        /\ mode = "sync"
        /\ reply.run
        /\ reply.val.status = 200
        /\ reply.val.body.results = report.val.results
        /\ reply.val.body.results = campaign_results
        /\ reply.val.body.total_companies = report.val.total_companies
        /\ reply.val.body.total_contacts = report.val.total_contacts
        /\ reply.val.body.total_emails = report.val.total_emails
        /\ reply.val.body.campaign_id = None

\* a report with a company and an email answered although the save raised
ReportReturnedUnsaved ==
    /\ pc = "responded"
    /\ saved.run
    /\ saved.val.raised
    /\ reply.val.status = 200
    /\ reply.val.body.total_companies > 0
    /\ reply.val.body.total_emails > 0
    /\ reply.val.body.campaign_id = None

\* the configuration of the request has one of the errors POST /campaign/configure
\* reports
ConfigurationError == request.run /\ validate_campaign_config(request.val) # {}

\* C17: a request to an execution endpoint whose configuration has an error
\* (unknown category, empty sender field, no target department, num_companies
\* outside 1..20) is rejected before any agent is invoked
ConfigErrorRejectedBeforeAgents ==
    ConfigurationError =>
        /\ \A a \in Agents : calls[a] = 0
        /\ pc = "responded" => reply.val.status \in {400, 422}

-----------------------------------------------------------------------------
(* Order and number of the agent invocations *)

\* s is t with some of its elements left out
RECURSIVE IsSubsequence(_, _)
IsSubsequence(s, t) ==
    IF s = <<>> THEN TRUE
    ELSE IF t = <<>> THEN FALSE
    ELSE IF Head(s) = Head(t) THEN IsSubsequence(Tail(s), Tail(t))
    ELSE IsSubsequence(s, Tail(t))

\* the company the entries of the log belong to
LoggedCompany == IF pc \in {"contacts", "email"} THEN idx ELSE idx - 1

ResearchEntered ==
    IF idx = 0 THEN 0 ELSE IF pc \in {"contacts", "email"} THEN idx ELSE idx - 1
ContactsEnded == IF idx = 0 THEN 0 ELSE IF pc = "email" THEN idx ELSE idx - 1

\* the (company, contact) pairs the loop over the contacts has passed
PairsPassed == SumContacts(campaign_results) + (IF pc = "email" THEN cidx - 1 ELSE 0)

\* C19 as stated: in a run that returns, the research agent and the contact
\* agent were invoked exactly once per discovered company and the email agent
\* exactly once per (company, contact) pair
ExactlyOncePerCompanyAndPair ==
    (pc = "done" /\ outcome = "returned") =>
        /\ calls["company_finder"] <= 1
        /\ calls["company_researcher"] = Len(companies)
        /\ calls["contact_finder"] = Len(companies)
        /\ calls["email_creator"] = PairsPassed

\* C19, amended: no call is repeated. The discovery agent is invoked at most
\* once, the research agent at most once per company entered and once for
\* each company no exception ended the processing of, the contact agent
\* exactly once for each of those companies, and the email agent at most once
\* per (company, contact) pair, exactly once per email generated
NoInvocationRepeated ==
    /\ calls["company_finder"] <= 1
    /\ calls["company_researcher"] <= ResearchEntered
    /\ calls["company_researcher"] >= ResearchEntered - Cardinality(failed_companies)
    /\ calls["contact_finder"] = ContactsEnded - Cardinality(failed_companies)
    /\ calls["email_creator"] <= PairsPassed
    /\ calls["email_creator"] = SumEmails(campaign_results) + Len(generated_emails)
    /\ \A k \in 1..Len(log) : \A m \in 1..Len(log) :
            (log[k].agent = log[m].agent /\ log[k].contact = log[m].contact) => k = m

\* a run of two companies: an exception ended the first, the second had its
\* research, its contact search and an email
OneCompanyFailedOtherInvokedOnce ==
    /\ pc = "done"
    /\ outcome = "returned"
    /\ Len(companies) = 2
    /\ failed_companies = {1}
    /\ calls["contact_finder"] = 1
    /\ calls["email_creator"] = 1
    /\ Len(campaign_results) = 1
    /\ Len(campaign_results[1].contacts) = 1

-----------------------------------------------------------------------------
(* Extraction of the research fields *)

\* C20: when the extraction of a field raises, every other field whose
\* extraction succeeds carries its extracted value in the profile returned
FieldFailureIsolated ==
    (ret.run /\ arg.agent.kind = "faulty") =>
        \A g \in ResearchFields :
            ~ExtractionRaises(arg.agent, g) =>
                ret.val.val[g] = extract_list_field(arg.agent.content, ResearchKeywords(g))

-----------------------------------------------------------------------------
(* The list of companies of a run *)

\* C21: the companies reported never exceed the num_companies requested,
\* whatever the discovery agent answers
ReportedWithinRequested ==
    /\ Len(campaign_results) <= Requested
    /\ report.some => report.val.total_companies <= Requested
    /\ (reply.run /\ reply.val.status = 200) =>
            reply.val.body.total_companies <= Requested

\* C22: the list returned by discovery never holds two records of the same
\* company name
DiscoveredNamesUnique ==
    ret.run =>
        \A i, j \in 1..Len(ret.val) :
            i # j => ret.val[i].company_name # ret.val[j].company_name

-----------------------------------------------------------------------------
(* The streaming run against the synchronous one *)

\* the report execute_campaign returns for the agent behaviour of this run
SyncReport ==
    IF companies = <<>> THEN EmptyReport ELSE FinalReport(campaign_results, companies)

\* execute_campaign raises for the agent behaviour of this run
SyncRaises == AgentsInvalid \/ DiscoveryRaised

\* C23: every completed update carries the result list and the three totals,
\* equal to those of the report of execute_campaign for the same agent
\* behaviour (a run that discovers nothing included), and the stream ends in
\* error exactly when execute_campaign raises
CompletedUpdateMatchesSyncReport ==
    /\ \A i \in At("completed") :
        /\ {"results", "total_companies", "total_contacts", "total_emails"}
                \subseteq events[i].keys
        /\ events[i].results = SyncReport.results
        /\ events[i].total_companies = SyncReport.total_companies
        /\ events[i].total_contacts = SyncReport.total_contacts
        /\ events[i].total_emails = SyncReport.total_emails
    /\ (mode = "stream" /\ pc = "done") =>
            (events[Len(events)].status = "error" <=> SyncRaises)

-----------------------------------------------------------------------------
(* The progress of the streaming run *)

\* the fractions a and b compared without division
FracLeq(a, b) == a.num * b.den <= b.num * a.den
FracEq(a, b) == a.num * b.den = b.num * a.den

\* 0.2 + 0.6 * k / n
CompanyProgress(k, n) == [num |-> 2 * n + 6 * k, den |-> 10 * n]

\* C24: with N companies discovered the processing update of company i has
\* progress 0.2 + 0.6 * (i - 1) / N and its completed_company update
\* 0.2 + 0.6 * i / N; the progress of a run that ends in completed never
\* decreases, stays at most 0.8 between discovery and the end, and only a
\* completed update has progress 1.0
ProgressFollowsCompanyIndex ==
    /\ \A i \in At("processing") :
        /\ events[i].company_number \in 1..Len(companies)
        /\ FracEq(events[i].progress,
                  CompanyProgress(events[i].company_number - 1, Len(companies)))
    /\ \A i \in At("completed_company") :
        /\ i > 1 /\ events[i - 1].status = "processing"
        /\ FracEq(events[i].progress,
                  CompanyProgress(events[i - 1].company_number, Len(companies)))
    /\ \A i \in 1..Len(events) :
        /\ FracEq(events[i].progress, [num |-> 1, den |-> 1]) =>
                events[i].status = "completed"
        /\ events[i].status \in {"processing", "completed_company"} =>
                /\ FracLeq([num |-> 2, den |-> 10], events[i].progress)
                /\ FracLeq(events[i].progress, [num |-> 8, den |-> 10])
    /\ (events # <<>> /\ events[Len(events)].status = "completed") =>
            /\ FracEq(events[Len(events)].progress, [num |-> 1, den |-> 1])
            /\ \A i \in 1..(Len(events) - 1) :
                    FracLeq(events[i].progress, events[i + 1].progress)

\* a stream of two companies, both completed, that ended in completed
TwoCompaniesProgressed ==
    /\ mode = "stream" /\ pc = "done"
    /\ Len(companies) = 2
    /\ Cardinality(At("completed_company")) = 2
    /\ events[Len(events)].status = "completed"

-----------------------------------------------------------------------------
(* The scalar field extractors on their own *)

\* lines of a section: labelled values, a value that holds the keyword of
\* another field, values of one character and of none, a URL, a dash as the
\* separator
FieldLinePool ==
    { <<"Name", ":", Space, "Ana">>,
      <<"Name", ":", Space, "Ana", Space, "Role">>,
      <<"-", Space, "Title", ":", Space, "CTO">>,
      <<"Title", ":", Space, "x">>,
      <<"Title", Space, "-", Space, "CTO">>,
      <<"CTO", Space, "-", Space, "Title">>,
      <<"LinkedIn", ":", Space>>,
      <<"LinkedIn", ":", Space, "https", ":", "//acme.com">>,
      <<"Website", ":", Space, "x">>,
      <<"Industry", ":", Space, "Website", Space, "Fintech software">>,
      <<"2", ".", Space, "**", "Website", ":", "**", Space, "https", ":", "//acme.com">> }

\* the keyword lists of _parse_companies_response and of
\* _parse_contacts_response, each keyword one token
FieldKeywords(extractor) ==
    IF extractor = "_extract_numbered_field"
    THEN { <<"website", "url">>, <<"industry", "sector">> }
    ELSE { <<"name">>, <<"title", "position", "role">>, <<"email">>,
           <<"linkedin", "profile">> }

FieldCalls ==
    { [extractor |-> e, text |-> t, keywords |-> ks] :
        e \in {"_extract_numbered_field", "_extract_field"},
        t \in TextsUpTo(FieldLinePool, MaxLines),
        ks \in FieldKeywords("_extract_numbered_field") \cup FieldKeywords("_extract_field") }

InitField ==
    /\ arg \in {c \in FieldCalls : c.keywords \in FieldKeywords(c.extractor)}
    /\ ret = NotRun
    /\ WorkflowIdle

\* one call of an extractor
ExtractField ==
    /\ ret = NotRun
    /\ ret' = [run |-> TRUE,
               val |-> IF arg.extractor = "_extract_numbered_field"
                       THEN extract_numbered_field(arg.text, arg.keywords)
                       ELSE contact_extract_field(arg.text, arg.keywords)]
    /\ UNCHANGED arg
    /\ UNCHANGED wvars

NextField == ExtractField

SpecField == InitField /\ [][NextField]_vars

\* what the loops of the extractor of the call return at one line for one
\* keyword
FieldAt(line, keyword) ==
    IF arg.extractor = "_extract_numbered_field"
    THEN NumberedFieldAt(line, keyword)
    ELSE ContactFieldAt(line, keyword)

\* the line the returned value was taken from
SourceLine ==
    LET lines == Lines(arg.text)
        gives(i) == \E k \in 1..Len(arg.keywords) : FieldAt(lines[i], arg.keywords[k]).some
    IN  lines[CHOOSE i \in 1..Len(lines) : gives(i) /\ \A j \in 1..(i - 1) : ~gives(j)]

\* the separator of a line: the first colon, without one the first dash
SeparatorOf(line) ==
    IF IndexOf(line, ":") > 0 THEN IndexOf(line, ":") ELSE IndexOf(line, "-")

LabelOf(line) == SubSeq(line, 1, SeparatorOf(line) - 1)
ValueOf(line) == SubSeq(line, SeparatorOf(line) + 1, Len(line))

\* C25: the value an extractor returns never comes from a line whose label
\* (the part before the separator) holds none of the keywords while its value
\* holds one
KeywordMatchedInLabelOnly ==
    (ret.run /\ ret.val.some) =>
        ~ /\ \A k \in 1..Len(arg.keywords) : ~HasKeyword(LabelOf(SourceLine), arg.keywords[k])
          /\ \E k \in 1..Len(arg.keywords) : HasKeyword(ValueOf(SourceLine), arg.keywords[k])

\* C26: an extractor returns None or a value of at least two characters
ExtractedValueUsable ==
    (ret.run /\ ret.val.some) => LineLen(ret.val.val) >= 2

-----------------------------------------------------------------------------
(* The contacts of a result *)

\* C27: every contact of a result has a name and a title that are not empty,
\* and its company is the company_name of the company_info of that result
ContactsWellFormedAndOwned ==
    \A i \in 1..Len(campaign_results) :
        \A j \in 1..Len(campaign_results[i].contacts) :
            LET contact == campaign_results[i].contacts[j]
            IN  /\ contact.name.some /\ contact.name.val # <<>>
                /\ contact.title.some /\ contact.title.val # <<>>
                /\ contact.company = campaign_results[i].company_info.company_name

\* the contact agent answered with a complete section and one that has a name
\* and no title: the result of the company holds the complete contact only
UntitledSectionDiscarded ==
    /\ campaign_results # <<>>
    /\ ReturnedCompany > 0
    /\ \E k \in EntriesOf("contact_finder") :
        log[k].result = AgentContent(ContactResponse(1, TRUE))
    /\ Len(LastResult.contacts) = 1
    /\ LastResult.company_info.company_name = companies[ReturnedCompany].company_name

-----------------------------------------------------------------------------
(* Storage of the reports: storage_service.py *)

\* ticks of the clock in one second
TicksPerSecond == 2
\* the last tick of the clock
MaxClock == 3
\* save_campaign calls that return, at most
MaxSaves == 2

\* datetime.now().strftime("%Y-%m-%d_%H-%M-%S"): the clock cut to the second
Timestamp(t) == t \div TicksPerSecond

\* f"campaign_{timestamp}"
CampaignIdAt(t) == <<"campaign_", Timestamp(t)>>

\* the dictionary written to the file (metadata and created_at left out)
CampaignData(t, campaign_response) ==
    [ campaign_id |-> CampaignIdAt(t), timestamp |-> Timestamp(t),
      results |-> campaign_response ]

\* a file that json.dump left unfinished
Unfinished == [campaign_id |-> <<>>, timestamp |-> 0, results |-> <<>>]

\* open(filepath, "w"): the file of that name is created or replaced
Written(dir, id, content) ==
    [f \in DOMAIN dir \cup {id} |-> IF f = id THEN content ELSE dir[f]]

\* get_campaign: None for a missing file and for one that does not load
get_campaign(campaign_id) ==
    IF campaign_id \notin DOMAIN files THEN None
    ELSE IF files[campaign_id] = Unfinished THEN None
    ELSE Some(files[campaign_id])

\* get_campaign_count: len(glob("campaign_*.json"))
CountIn(dir) == Cardinality(DOMAIN dir)
get_campaign_count == CountIn(files)

\* the reports handed to save_campaign
StoredReports ==
    { EmptyReport,
      FinalReport(<<CampaignResult(SomeCompanyInfo, <<>>, <<>>)>>, <<>>) }

InitStorage ==
    /\ arg = <<>>
    /\ ret = NotRun
    /\ WorkflowIdle

\* the clock advances
Tick ==
    /\ clock < MaxClock
    /\ clock' = clock + 1
    /\ UNCHANGED <<arg, ret, files, saves, consumer>>
    /\ UNCHANGED <<mode, pc, outcome, companies, idx, company_info, contacts, cidx,
                   generated_emails, campaign_results, report, events, calls, response,
                   agent_ok, log, failed_companies, request, saved, reply>>

\* one call of save_campaign: it raises before the file is opened
\* (model_dump), raises while the file is written (json.dump), or returns
\* the id
SaveCampaign ==
    /\ \E campaign_response \in StoredReports, raises \in {"no", "model_dump", "json.dump"} :
        LET campaign_id == CampaignIdAt(clock)
            campaign_data == CampaignData(clock, campaign_response)
        IN  CASE raises = "model_dump" ->
                    /\ ret' = [run |-> TRUE, val |-> Raised]
                    /\ UNCHANGED <<files, saves>>
              [] raises = "json.dump" ->
                    /\ ret' = [run |-> TRUE, val |-> Raised]
                    /\ files' = Written(files, campaign_id, Unfinished)
                    /\ UNCHANGED saves
              [] OTHER ->
                    /\ Len(saves) < MaxSaves
                    /\ ret' = [run |-> TRUE, val |-> Returned(campaign_id)]
                    /\ files' = Written(files, campaign_id, campaign_data)
                    /\ saves' = Append(saves,
                            [ id |-> campaign_id, data |-> campaign_data,
                              count_before |-> get_campaign_count,
                              count_after |-> CountIn(Written(files, campaign_id,
                                                              campaign_data)) ])
    /\ UNCHANGED <<arg, clock, consumer>>
    /\ UNCHANGED <<mode, pc, outcome, companies, idx, company_info, contacts, cidx,
                   generated_emails, campaign_results, report, events, calls, response,
                   agent_ok, log, failed_companies, request, saved, reply>>

NextStorage == Tick \/ SaveCampaign

SpecStorage == InitStorage /\ [][NextStorage]_vars

\* C28: every save_campaign call that returned created a new entry: the
\* ids returned are distinct, the count grew by one with each, and
\* get_campaign of each id gives what was saved under it
EverySaveCreatesNewEntry ==
    /\ \A i \in 1..Len(saves) : saves[i].count_after = saves[i].count_before + 1
    /\ \A i, j \in 1..Len(saves) : i # j => saves[i].id # saves[j].id
    /\ \A i \in 1..Len(saves) : get_campaign(saves[i].id) = Some(saves[i].data)

-----------------------------------------------------------------------------
(* The frames of the streaming endpoint *)

\* C29: the streaming endpoint delivers the updates of the orchestrator, one
\* frame per update in the same order; a run that ends in a completed update
\* with results is seen ending in the frame of that update
StreamDeliversEveryUpdate ==
    (reply.run /\ mode = "stream" /\ reply.val.status = 200) =>
        reply.val.body.frames = [i \in 1..Len(events) |-> Frame(events[i])]

-----------------------------------------------------------------------------
(* The caller of the streaming method *)

\* execute_campaign_streaming is a generator: its body runs while the caller
\* asks for the next update and is suspended at the yield of the last update
\* in between.  The generator is suspended here:
Suspended ==
    /\ mode = "stream"
    /\ events # <<>>
    /\ \/ pc \in {"validate", "discover", "research"}
       \/ /\ pc = "company"
          /\ events[Len(events)].status \in {"discovered", "completed_company"}
       \/ /\ pc = "finish"
          /\ events[Len(events)].status = "completed_company"

\* a run of the streaming method for a caller that reads its updates
InitConsumer ==
    /\ InitCampaign
    /\ mode = "stream"

\* next(generator): the body runs up to its next yield
GeneratorStep ==
    /\ consumer = "reading"
    /\ Next

\* the caller stops iterating after an update and never asks for another
StopConsuming ==
    /\ consumer = "reading"
    /\ Suspended
    /\ consumer' = "stopped"
    /\ UNCHANGED <<arg, ret, mode, pc, outcome, companies, idx, company_info, contacts,
                   cidx, generated_emails, campaign_results, report, events, calls,
                   response, agent_ok, log, failed_companies, request, saved, reply>>
    /\ UNCHANGED svars

NextConsumer ==
    \/ GeneratorStep
    \/ StopConsuming

SpecConsumer == InitConsumer /\ [][NextConsumer]_vars

\* C30: a caller that stops consuming the updates does not halt the run: the
\* work for the remaining companies can still go on
StoppedConsumerDoesNotHaltRun ==
    (consumer = "stopped" /\ pc # "done") => ENABLED GeneratorStep

====
